---- MODULE Spec2Model ----
(***************************************************************************)
(* RSSky: the per-item summarization pipeline (AIProcessor.summarize_entry)*)
(* over the file cache (CacheManager), the digest aggregation              *)
(* (AIProcessor.generate_digest) and the run that drives both (main).      *)
(*                                                                         *)
(* Python values are tagged records [t, s, n]: t is the type, s the text   *)
(* of a string (a sequence of tokens: single characters, or whole phrases  *)
(* where the code only tests for a phrase), n the number.  A file of the   *)
(* cache is a sequence: <<>> when the file does not exist, <<v>> when it   *)
(* holds v.  The same shape is used for an optional result (None / value). *)
(***************************************************************************)
EXTENDS Integers, Sequences, FiniteSets, TLC

\* ------------------------------------------------------------------ bounds
MaxDay == 1                      \* the clock runs over days 0..MaxDay

\* ------------------------------------------------------- program constants
\* a retry loop that stops one attempt early: range(1, max_attempts)
max_attempts_short == 3 - 1

max_attempts == 3
\* a fallback record that is rated unimportant
FallbackImportance_zero == 5 - 5

FallbackImportance == 5
MaxNameLen == 100

\* ---------------------------------------------------------- Python values
Missing == [t |-> "missing", s |-> <<>>, n |-> 0]   \* key not in the dict
NoneV   == [t |-> "none",    s |-> <<>>, n |-> 0]
TrueV   == [t |-> "bool",    s |-> <<>>, n |-> 1]
Str(x)  == [t |-> "str",     s |-> x,    n |-> 0]
Num(k)  == [t |-> "num",     s |-> <<>>, n |-> k]
Lst(x)  == [t |-> "list",    s |-> x,    n |-> 0]   \* a list of items

IsStr(v) == v.t = "str"

\* bool(v)
Truthy(v) ==
    CASE v.t = "str"  -> Len(v.s) > 0
      [] v.t = "num"  -> v.n # 0
      [] v.t = "bool" -> v.n = 1
      [] v.t = "list" -> Len(v.s) > 0
      [] OTHER        -> FALSE

\* dict.get(key) with no default: a missing key reads as None
Get(v) == IF v.t = "missing" THEN NoneV ELSE v

\* dict.get(key, default)
GetOr(v, d) == IF v.t = "missing" THEN d ELSE v

\* a or b
PyOr(a, b) == IF Truthy(a) THEN a ELSE b

\* phrase in text, for a str
Contains(text, phrase) == \E i \in 1..Len(text) : text[i] = phrase

\* str(v) inside an f-string
Format(v) ==
    CASE v.t = "str"  -> v.s
      [] v.t = "none" -> <<"None">>
      [] v.t = "num"  -> <<"#">>
      [] OTHER        -> <<"True">>

\* ------------------------------------------------------------ safe_filename
\* characters matched by \w, '-' and '.' in the alphabet used here; \w is
\* the Unicode class of a str pattern, which has the Cyrillic letter "zhe"
KeptChars == {"A", "B", "e", "n", "t", "r", "y", "u", "x", "v", "w", "i", "l", "d",
              "m", "s", "g", "_", "-", ".", "zhe"}

\* unicodedata.normalize('NFKD', text): decomposes a composed character
Decompose(c) == IF c = "E'" THEN <<"e", "'">> ELSE <<c>>

\* the decompositions of the characters, one after the other (the text is
\* split in halves so that a text of over 100 characters can be evaluated)
RECURSIVE Nfkd(_)
Nfkd(s) ==
    IF s = <<>> THEN <<>>
    ELSE IF Len(s) = 1 THEN Decompose(s[1])
    ELSE LET half == Len(s) \div 2
         IN  Nfkd(SubSeq(s, 1, half)) \o Nfkd(SubSeq(s, half + 1, Len(s)))

\* re.sub(r'[^\w\-\.]', '_', text)
ReplaceUnsafe(s) == [i \in 1..Len(s) |-> IF s[i] \in KeptChars THEN s[i] ELSE "_"]

\* re.sub(r'_{2,}', '_', text): of every run of underscores the first is kept
Collapse(s) ==
    LET marked == [i \in 1..Len(s) |->
                     [c |-> s[i], dup |-> i > 1 /\ s[i] = "_" /\ s[i - 1] = "_"]]
        First(m) == ~m.dup
        kept == SelectSeq(marked, First)
    IN  [i \in 1..Len(kept) |-> kept[i].c]

\* text.strip('_')
RECURSIVE LStrip(_)
LStrip(s) == IF s # <<>> /\ Head(s) = "_" THEN LStrip(Tail(s)) ELSE s

RECURSIVE RStrip(_)
RStrip(s) ==
    IF s # <<>> /\ s[Len(s)] = "_" THEN RStrip(SubSeq(s, 1, Len(s) - 1)) ELSE s

Untitled == <<"u", "n", "t", "i", "t", "l", "e", "d">>

safe_filename(text) ==
    LET stripped == RStrip(LStrip(Collapse(ReplaceUnsafe(Nfkd(text)))))
        named    == IF stripped = <<>> THEN Untitled ELSE stripped
    IN  IF Len(named) > MaxNameLen THEN SubSeq(named, 1, MaxNameLen) ELSE named

\* --------------------------------------------------- create_entry_cache_key
\* s.split(c)[-1]
AfterLast(s, c) ==
    LET hits == {i \in 1..Len(s) : s[i] = c}
        last == IF hits = {} THEN 0 ELSE CHOOSE i \in hits : \A j \in hits : j <= i
    IN  SubSeq(s, last + 1, Len(s))

MissingId == <<"m", "i", "s", "s", "i", "n", "g", "_", "i", "d">>
EntryPrefix == <<"e", "n", "t", "r", "y">>

\* entry.get('link') or entry.get('id', '')
UniquePart(entry) == PyOr(Get(entry.link), GetOr(entry.id, Str(<<>>)))

\* the text that is hashed when the title is missing
BaseKey(entry) ==
    LET unique == UniquePart(entry)
        base   == IF Truthy(unique) THEN unique.s ELSE MissingId
        seg    == IF Contains(base, "/") THEN AfterLast(base, "/") ELSE base
    IN  IF Contains(base, "/") /\ Contains(seg, "=") THEN AfterLast(seg, "=") ELSE seg

\* create_entry_cache_key raises (TypeError / AttributeError) on these entries
KeyRaises(entry) ==
    LET title  == Get(entry.title)
        unique == UniquePart(entry)
    IN  IF ~Truthy(title)
        THEN Truthy(unique) /\ ~IsStr(unique)
        ELSE ~IsStr(title) \/ ~IsStr(unique)

\* The key "<name>_<hash>".  hashlib.sha1(x).hexdigest()[:8] is modelled as
\* an injective function of x: the hash field holds the hashed text.
create_entry_cache_key(entry) ==
    LET title == Get(entry.title)
    IN  IF ~Truthy(title)
        THEN [name |-> EntryPrefix, hash |-> BaseKey(entry)]
        ELSE [name |-> safe_filename(title.s), hash |-> UniquePart(entry).s]

\* ------------------------------------------------------------------ inputs
Link1 == <<"x">>
Link2 == <<"u", "/", "w", "=", "x">>

Entry(title, link, id, published) ==
    [title |-> title, link |-> link, id |-> id, published |-> published,
     updated |-> Missing]

\* E1 and E2 are two items whose keys coincide ("entry_" + sha1("x")): E1 is
\* titled "entry " and linked to "x", E2 has no title and its link ends in
\* "=x".  E1 carries a publication date, E2 one that does not parse.  E3 and
\* E4 are items whose key cannot be derived (a null id under a title, a
\* numeric id without a title).  E5 has a null title and the link of E1: its
\* key is that of E1 and E2, and its title cannot be sliced.
E1 == Entry(Str(EntryPrefix \o <<" ">>), Str(Link1), Str(<<"i">>), Str(<<"d">>))
E2 == Entry(Missing, Str(Link2), Missing, Str(<<"?">>))
E3 == Entry(Str(<<"B">>), NoneV, NoneV, Missing)
E4 == Entry(NoneV, Missing, Num(7), Missing)
E5 == Entry(NoneV, Str(Link1), Missing, Missing)

Entries == {E1, E2, E3, E4, E5}

FeedIds == {"feedA"}

EntryIds == {create_entry_cache_key(e) : e \in {x \in Entries : ~KeyRaises(x)}}

\* --------------------------------------------------------- summary records
\* A summary dict: every key the program reads or writes is a field, Missing
\* when the dict has no such key.
Rec(importance, summary, impact, date) ==
    [importance |-> importance, summary |-> summary, impact |-> impact,
     date |-> date, url |-> Missing, title |-> Missing, full |-> Missing]

EmptyRec == Rec(Missing, Missing, Missing, Missing)

\* bool(dict): a dict is truthy when it has at least one key
RecTruthy(r) ==
    \/ r.importance # Missing \/ r.summary # Missing \/ r.impact # Missing
    \/ r.date # Missing \/ r.url # Missing \/ r.title # Missing \/ r.full # Missing

\* a date string: its text, and the day it names when it is the current date
DateStr(text, day) == [t |-> "str", s |-> text, n |-> day]

\* dateutil's parser.parse raises on text it cannot read as a date
DateParses(text) == ~Contains(text, "?")

\* a fallback whose sentinel text does not name the item
generate_fallback_summary_untitled(entry, now) ==
    LET entry_date == PyOr(Get(entry.published), Get(entry.updated))
        formatted  ==
            IF Truthy(entry_date) /\ IsStr(entry_date) /\ DateParses(entry_date.s)
            THEN DateStr(<<"ymd-of">> \o entry_date.s, 0)
            ELSE DateStr(<<"today">>, now)
    IN  Rec(Num(FallbackImportance),
            Str(<<"Summary ", "could not be extracted">>),
            Str(<<"Impact could not be determined due to processing error.">>),
            formatted)

\* _generate_fallback_summary
generate_fallback_summary(entry, now) ==
    LET entry_title == GetOr(entry.title, Str(<<"Unknown">>))
        entry_date  == PyOr(Get(entry.published), Get(entry.updated))
        formatted   ==
            IF Truthy(entry_date) /\ IsStr(entry_date) /\ DateParses(entry_date.s)
            THEN DateStr(<<"ymd-of">> \o entry_date.s, 0)
            ELSE DateStr(<<"today">>, now)
    IN  Rec(Num(FallbackImportance),
            Str(<<"Summary ", "could not be extracted", " for: ">> \o Format(entry_title)),
            Str(<<"Impact could not be determined due to processing error.">>),
            formatted)

\* --------------------------------------------------------------- upstream
GoodRec     == Rec(Num(8), Str(<<"This is a test summary.">>), Str(<<"High">>),
                   DateStr(<<"2023-01-01">>, 0))
SentExtract == Rec(Num(2), Str(<<"Text ", "could not be extracted">>), Missing, Missing)
SentParse   == Rec(Num(2), Str(<<"A ", "parsing error", " occurred">>), Missing, Missing)
SentApi     == Rec(Num(9), Str(<<"API request failed">>), Missing, Missing)
NullSumRec  == Rec(Num(8), NoneV, Str(<<"High">>), Missing)
NoSumRec    == Rec(Num(8), Missing, Str(<<"High">>), Missing)

RespRecords == {GoodRec, SentExtract, SentParse, SentApi, NullSumRec, NoSumRec, EmptyRec}

\* what the HTTP call can do: raise, answer with a non-200 status, answer
\* without choices, answer with text that holds no decodable object, or
\* answer with text that holds the object obj
Upstream ==
    {[kind |-> k, obj |-> EmptyRec] : k \in {"exception", "http_error", "no_choices", "no_json"}}
    \cup {[kind |-> "object", obj |-> r] : r \in RespRecords}

\* _make_ai_request: the parsed_response of the returned pair, <<>> for None
make_ai_request(u) == IF u.kind = "object" THEN <<u.obj>> ELSE <<>>

\* a sentinel test that forgets the "parsing error" phrase
IsSentinel_two(text) ==
    \/ Contains(text, "could not be extracted")
    \/ Contains(text, "API request failed")

\* the test of line 118 on a str
IsSentinel(text) ==
    \/ Contains(text, "could not be extracted")
    \/ Contains(text, "parsing error")
    \/ Contains(text, "API request failed")

\* `phrase in summary_text` raises TypeError when summary_text is None or a number
SentinelTestRaises(parsed) == ~IsStr(GetOr(parsed.summary, Str(<<>>)))

\* an echo that takes the url from the item's id instead of its link
EchoIdentity_id(parsed, entry) ==
    [parsed EXCEPT !.url   = GetOr(entry.id, Str(<<>>)),
                   !.title = GetOr(entry.title, Str(<<>>)),
                   !.full  = TrueV]

\* lines 131-133
EchoIdentity(parsed, entry) ==
    [parsed EXCEPT !.url   = GetOr(entry.link, Str(<<>>)),
                   !.title = GetOr(entry.title, Str(<<>>)),
                   !.full  = TrueV]

\* ------------------------------------------------------------------ state
VARIABLES
    content,    \* content[f][k]: the file <feed>/<entry>/fulltext.txt
    summary,    \* summary[f][k]: the file <feed>/<entry>/summary.json
    today,      \* the current date
    pc,         \* "idle", or "fetching" inside the retry loop of summarize_entry
    cur,        \* arguments of the running (or last) summarize_entry call
    attempt,    \* loop variable of the retry loop
    resps,      \* parsed_response of each attempt of this call, in order
    upstream,   \* number of _make_ai_request invocations of this call
    writes,     \* cache_summary calls of this call: [rec, ok]
    ret,        \* <<>> while running, <<v>> once the call returned v
    term,       \* branch the call returned from
    pre,        \* the entry's two files as they were when the call started
    prev,       \* the call before this one, when this call repeats it: its
                \* upstream invocations, its branch, whether its write succeeded
    consec,     \* this call repeats the previous one (same item, both force=false,
                \* no cache operation in between)
    sentBy,     \* sentBy[f][k]: <<e>> when summary[f][k] was written by a
                \* summarize_entry call for item e that ended with a sentinel
                \* or fallback record, else <<>>
    put,        \* put[f][k]: <<r>> when the latest cache_summary call for the
                \* identity had the record r and its write did not fail,
                \* no removal of the entry since; else <<>>
    last_op,    \* the latest cache operation made directly by a caller
    \* generate_digest
    dpc,        \* "idle", "retrying" inside the retry loop, "returned", "raised"
    dcur,       \* the entries argument of the running (or last) call
    entries_with_summaries,   \* the aggregation batch
    digest_attempt,           \* loop variable `attempt` of the retry loop
    digest_resps,   \* parsed_response of each upstream invocation, as received
    digest_sleeps,  \* the time.sleep calls made: their delays, in order
    digest_ret,     \* <<>>, or <<v>> once the call returned v
    digest_exc,     \* "none", or the exception the call raised
    \* main
    run_pc,         \* "off", "items", "digest", "render", "exit"
    feed_entries,   \* the items the loop has still to go through
    all_processed_entries,
    rendered,       \* the renderer calls made, in order
    status,         \* <<>> while running, <<c>> once main returned c
    \* the cache tree with its clock
    rawfeed,    \* rawfeed[f]: the file <feed>/rawfeed.json
    feed_dirs,  \* the feed directories that get_rawfeed_path made
    mtime,      \* mtime[f][k]: st_mtime of the directory <feed>/<entry>, 0
                \* while the directory holds no file
    now,        \* the clock, in seconds
    tree_op,    \* the latest operation on the tree: its name, its arguments,
                \* what it returned, whether it raised
    \* the identities
    id_prev,    \* the identity derivation before the latest one
    id_op,      \* the latest identity derivation: its arguments and result
    \* two processes on one summary file
    writer,     \* writer[p]: where process p is in its summarize_entry call,
                \* the record it got and the value it returned
    sumfile,    \* the summary.json both write: whether it exists, its text
    reads       \* what the latest get_entry_summary of a third process got

treeVars == <<rawfeed, feed_dirs, mtime, now, tree_op>>

idVars == <<id_prev, id_op>>

raceVars == <<writer, sumfile, reads>>

storeVars == <<put, last_op, treeVars, idVars, raceVars>>

summarizeVars == <<content, summary, today, pc, cur, attempt, resps, upstream,
                   writes, ret, term, pre, prev, consec, sentBy, storeVars>>

digestVars == <<dpc, dcur, entries_with_summaries, digest_attempt, digest_resps,
                digest_sleeps, digest_ret, digest_exc>>

runVars == <<run_pc, feed_entries, all_processed_entries, rendered, status>>

vars == <<summarizeVars, digestVars, runVars>>

ContentTexts == {Str(<<>>), Str(<<"This is the article content.">>)}

LowRec == Rec(Num(3), Str(<<"Not very important.">>), Missing, Missing)
DirectRecords == {EmptyRec, LowRec}

NoCall == [entry |-> E1, feed |-> "feedA", force |-> FALSE]
NoFiles == [content |-> <<>>, summary |-> <<>>, sent |-> <<>>]
NoPrev == [up |-> 0, term |-> "none", ok |-> TRUE]

\* no cache operation has been made by a caller
NoOp == [name |-> "none", f |-> "", k |-> <<>>, rec |-> <<>>, ok |-> TRUE]

\* no operation on the tree has been made, and the tree is empty
NoTreeOp ==
    [name |-> "none", f |-> "", k |-> <<>>, arg |-> <<>>, ok |-> TRUE,
     result |-> <<>>, raised |-> FALSE]

NoTree(feeds, ids) ==
    /\ rawfeed = [f \in feeds |-> <<>>]
    /\ feed_dirs = {}
    /\ mtime = [f \in feeds |-> [k \in ids |-> 0]]
    /\ now = 0
    /\ tree_op = NoTreeOp

\* no identity has been derived
NoIdOp == [name |-> "none", args |-> <<>>, result |-> <<>>, raised |-> FALSE]

NoIds ==
    /\ id_prev = NoIdOp
    /\ id_op = NoIdOp

\* no process is summarizing, and the file they would write does not exist
NoFile == [exists |-> FALSE, text |-> <<>>]
NoRead == [result |-> <<>>, raised |-> FALSE]

NoRace ==
    /\ writer = <<>>
    /\ sumfile = NoFile
    /\ reads = NoRead

NoPuts(feeds, ids) ==
    /\ put = [f \in feeds |-> [k \in ids |-> <<>>]]
    /\ last_op = NoOp
    /\ NoTree(feeds, ids)
    /\ NoIds
    /\ NoRace

\* no generate_digest call has been made
NoDigest ==
    /\ dpc = "idle"
    /\ dcur = <<>>
    /\ entries_with_summaries = <<>>
    /\ digest_attempt = 0
    /\ digest_resps = <<>>
    /\ digest_sleeps = <<>>
    /\ digest_ret = <<>>
    /\ digest_exc = "none"

\* no run of main is under way
NoRun ==
    /\ run_pc = "off"
    /\ feed_entries = <<>>
    /\ all_processed_entries = <<>>
    /\ rendered = <<>>
    /\ status = <<>>

Init ==
    /\ content  = [f \in FeedIds |-> [k \in EntryIds |-> <<>>]]
    /\ summary  = [f \in FeedIds |-> [k \in EntryIds |-> <<>>]]
    /\ today    = 0
    /\ pc       = "idle"
    /\ cur      = NoCall
    /\ attempt  = 0
    /\ resps    = <<>>
    /\ upstream = 0
    /\ writes   = <<>>
    /\ ret      = <<>>
    /\ term     = "none"
    /\ pre      = NoFiles
    /\ prev     = NoPrev
    /\ consec   = FALSE
    /\ sentBy   = [f \in FeedIds |-> [k \in EntryIds |-> <<>>]]
    /\ NoPuts(FeedIds, EntryIds)
    /\ NoDigest
    /\ NoRun

\* ------------------------------------------------------------ CacheManager
\* get_cached_content: None when the file is missing
get_cached_content(f, k) == IF content[f][k] = <<>> THEN NoneV ELSE content[f][k][1]

\* get_entry_summary: <<>> (None) when the file is missing
get_entry_summary(f, k) == summary[f][k]

\* has_entry_summary
has_entry_summary(f, k) == summary[f][k] # <<>>

\* the keys of a summary dict
RecKeys == {"importance", "summary", "impact", "date", "url", "title", "full"}

\* a serialization that writes every scalar as a string
JsonLiteral_text(v) ==
    CASE v.t = "list" -> [lit |-> "array",  text |-> v.s, n |-> 0]
      [] v.t = "none" -> [lit |-> "null",   text |-> <<>>, n |-> 0]
      [] OTHER        -> [lit |-> "string", text |-> v.s, n |-> v.n]

\* json.dump of one value: the JSON literal written for it
JsonLiteral(v) ==
    CASE v.t = "str"  -> [lit |-> "string", text |-> v.s, n |-> v.n]
      [] v.t = "num"  -> [lit |-> "number", text |-> <<>>, n |-> v.n]
      [] v.t = "bool" -> [lit |-> IF v.n = 1 THEN "true" ELSE "false",
                          text |-> <<>>, n |-> 0]
      [] v.t = "list" -> [lit |-> "array",  text |-> v.s, n |-> 0]
      [] OTHER        -> [lit |-> "null",   text |-> <<>>, n |-> 0]

\* json.dump(summary_data): the JSON object, one member per key of the dict
JsonDump(rec) ==
    {[key |-> key, value |-> JsonLiteral(rec[key])] :
        key \in {x \in RecKeys : rec[x].t # "missing"}}

\* a loader that reads true and false as the numbers 1 and 0
PyValue_nobool(l) ==
    CASE l.lit = "string" -> [t |-> "str",  s |-> l.text, n |-> l.n]
      [] l.lit = "number" -> [t |-> "num",  s |-> <<>>,   n |-> l.n]
      [] l.lit = "true"   -> [t |-> "num",  s |-> <<>>,   n |-> 1]
      [] l.lit = "false"  -> [t |-> "num",  s |-> <<>>,   n |-> 0]
      [] l.lit = "array"  -> [t |-> "list", s |-> l.text, n |-> 0]
      [] OTHER            -> [t |-> "none", s |-> <<>>,   n |-> 0]

\* json.load of one literal
PyValue(l) ==
    CASE l.lit = "string" -> [t |-> "str",  s |-> l.text, n |-> l.n]
      [] l.lit = "number" -> [t |-> "num",  s |-> <<>>,   n |-> l.n]
      [] l.lit = "true"   -> [t |-> "bool", s |-> <<>>,   n |-> 1]
      [] l.lit = "false"  -> [t |-> "bool", s |-> <<>>,   n |-> 0]
      [] l.lit = "array"  -> [t |-> "list", s |-> l.text, n |-> 0]
      [] OTHER            -> [t |-> "none", s |-> <<>>,   n |-> 0]

\* json.load(f): the dict with a key for every member of the object
JsonLoad(doc) ==
    [key \in RecKeys |->
        IF \E m \in doc : m.key = key
        THEN PyValue((CHOOSE m \in doc : m.key = key).value)
        ELSE [t |-> "missing", s |-> <<>>, n |-> 0]]

\* a cache_summary that never reaches the file
cache_summary_dropped(f, k, rec, ok) == summary

\* cache_summary: the store after the call.  The file gets the JSON text of
\* the record, and a file of the model holds what json.load reads back from
\* it.  An I/O error (ok = FALSE) is logged and swallowed and leaves the
\* file as it was.
cache_summary(f, k, rec, ok) ==
    IF ok THEN [summary EXCEPT ![f][k] = <<JsonLoad(JsonDump(rec))>>] ELSE summary

\* cache_content, likewise
cache_content(f, k, text, ok) ==
    IF ok THEN [content EXCEPT ![f][k] = <<text>>] ELSE content

\* get_entry_content
get_entry_content(f, k) == IF f = "" THEN NoneV ELSE get_cached_content(f, k)

\* --------------------------------------------------------- summarize_entry
\* bookkeeping of sentBy for a write of summary[f][k]
Mark(f, k, ok, val) == IF ok THEN [sentBy EXCEPT ![f][k] = val] ELSE sentBy

\* a cache test that never hits
CacheHit_never(cached) == FALSE

\* `if cached_summary:` of line 65
CacheHit(cached) == cached # <<>> /\ RecTruthy(cached[1])

\* entry_title[:30] of line 88 raises TypeError, outside any try, when
\* entry.get('title', 'Unknown') is not a string
PromptRaises(entry) == ~IsStr(GetOr(entry.title, Str(<<"Unknown">>)))

\* lines 46-100: the call up to its first upstream attempt.  It returns at
\* once when the key cannot be derived (no write), when the content is
\* missing (fallback written), or on a cache hit (no write); it raises while
\* building the prompt when the title is not a string.  The files written
\* under debug/ are not part of the cache and are left out.
SummarizeEntry(entry, feed, force) ==
    /\ pc = "idle"
    /\ cur' = [entry |-> entry, feed |-> feed, force |-> force]
    /\ consec' = (/\ term # "none"
                  /\ cur.entry = entry /\ cur.feed = feed
                  /\ ~cur.force /\ ~force)
    /\ prev' = IF consec'
               THEN [up |-> upstream, term |-> term,
                     ok |-> \A i \in 1..Len(writes) : writes[i].ok]
               ELSE NoPrev
    /\ resps' = <<>>
    /\ upstream' = 0
    /\ UNCHANGED <<content, today, storeVars, digestVars, runVars>>
    /\ IF KeyRaises(entry)
       THEN /\ ret' = <<generate_fallback_summary(entry, today)>>
            /\ term' = "nokey"
            /\ writes' = <<>>
            /\ pre' = NoFiles
            /\ pc' = "idle"
            /\ attempt' = 0
            /\ UNCHANGED <<summary, sentBy>>
       ELSE LET entry_id == create_entry_cache_key(entry)
                text     == get_entry_content(feed, entry_id)
                cached   == get_entry_summary(feed, entry_id)
                fallback == generate_fallback_summary(entry, today)
            IN  /\ pre' = [content |-> content[feed][entry_id],
                           summary |-> summary[feed][entry_id],
                           sent    |-> sentBy[feed][entry_id]]
                /\ IF ~Truthy(text)
                   THEN /\ \E ok \in BOOLEAN :
                              /\ summary' = cache_summary(feed, entry_id, fallback, ok)
                              /\ sentBy' = Mark(feed, entry_id, ok, <<entry>>)
                              /\ writes' = <<[rec |-> fallback, ok |-> ok]>>
                        /\ ret' = <<fallback>>
                        /\ term' = "nocontent"
                        /\ pc' = "idle"
                        /\ attempt' = 0
                   ELSE IF ~force /\ CacheHit(cached)
                   THEN /\ ret' = <<cached[1]>>
                        /\ term' = "hit"
                        /\ writes' = <<>>
                        /\ pc' = "idle"
                        /\ attempt' = 0
                        /\ UNCHANGED <<summary, sentBy>>
                   ELSE IF PromptRaises(entry)
                   THEN /\ ret' = <<>>
                        /\ term' = "raised"
                        /\ writes' = <<>>
                        /\ pc' = "idle"
                        /\ attempt' = 0
                        /\ UNCHANGED <<summary, sentBy>>
                   ELSE /\ ret' = <<>>
                        /\ term' = "running"
                        /\ writes' = <<>>
                        /\ pc' = "fetching"
                        /\ attempt' = 1
                        /\ UNCHANGED <<summary, sentBy>>

\* a return that skips cache_summary(rec)
StoreAndReturn_unsaved(rec, label, sentinel) ==
    /\ UNCHANGED <<summary, sentBy, writes>>
    /\ ret' = <<rec>>
    /\ term' = label
    /\ pc' = "idle"
    /\ attempt' = 0

\* the call returns rec after cache_summary(rec)
StoreAndReturn(rec, label, sentinel) ==
    LET entry_id == create_entry_cache_key(cur.entry)
    IN  /\ \E ok \in BOOLEAN :
              /\ summary' = cache_summary(cur.feed, entry_id, rec, ok)
              /\ sentBy' = Mark(cur.feed, entry_id, ok,
                                IF sentinel THEN <<cur.entry>> ELSE <<>>)
              /\ writes' = Append(writes, [rec |-> rec, ok |-> ok])
        /\ ret' = <<rec>>
        /\ term' = label
        /\ pc' = "idle"
        /\ attempt' = 0

\* the loop goes on to the next attempt
NextAttempt ==
    /\ attempt' = attempt + 1
    /\ UNCHANGED <<summary, sentBy, writes, ret, term, pc>>

\* lines 100-147: one pass of the retry loop, with the upstream doing u
Attempt(u) ==
    /\ pc = "fetching"
    /\ LET parsed_response == make_ai_request(u)
           fallback        == generate_fallback_summary(cur.entry, today)
       IN  /\ upstream' = upstream + 1
           /\ resps' = Append(resps, parsed_response)
           /\ IF parsed_response # <<>> /\ RecTruthy(parsed_response[1])
              THEN LET parsed == parsed_response[1]
                   IN  IF SentinelTestRaises(parsed)
                       THEN \* except branch, lines 142-147
                            IF attempt = max_attempts
                            THEN StoreAndReturn(fallback, "fallback", TRUE)
                            ELSE NextAttempt
                       ELSE IF IsSentinel(GetOr(parsed.summary, Str(<<>>)).s)
                       THEN IF attempt = max_attempts
                            THEN StoreAndReturn(parsed, "sentinel", TRUE)
                            ELSE NextAttempt
                       ELSE StoreAndReturn(EchoIdentity(parsed, cur.entry),
                                           "success", FALSE)
              ELSE IF attempt = max_attempts
                   THEN StoreAndReturn(fallback, "fallback", TRUE)
                   ELSE NextAttempt
    /\ UNCHANGED <<content, today, cur, pre, prev, consec, storeVars, digestVars, runVars>>

\* ------------------------------------------- the other operations of a run
\* the record of the last summarize_entry call is dropped
ForgetCall ==
    /\ cur' = NoCall
    /\ resps' = <<>>
    /\ upstream' = 0
    /\ writes' = <<>>
    /\ ret' = <<>>
    /\ term' = "none"
    /\ pre' = NoFiles
    /\ prev' = NoPrev
    /\ consec' = FALSE

\* An operation other than summarize_entry, between two calls.  The record
\* of the last call (cur .. consec) describes the call that has just
\* returned and is dropped by the next cache operation.
OtherOp ==
    /\ pc = "idle"
    /\ ForgetCall
    /\ UNCHANGED <<today, pc, attempt, storeVars, digestVars, runVars>>

\* ContentProcessor.process_entry / a caller storing extracted text
CacheContent(f, k, text, ok) ==
    /\ OtherOp
    /\ content' = cache_content(f, k, text, ok)
    /\ UNCHANGED <<summary, sentBy>>

\* a caller storing a summary directly
CacheSummary(f, k, rec, ok) ==
    /\ OtherOp
    /\ summary' = cache_summary(f, k, rec, ok)
    /\ sentBy' = Mark(f, k, ok, <<>>)
    /\ UNCHANGED content

\* clear_entry_summary
ClearEntrySummary(f, k) ==
    /\ OtherOp
    /\ summary' = [summary EXCEPT ![f][k] = <<>>]
    /\ sentBy' = [sentBy EXCEPT ![f][k] = <<>>]
    /\ UNCHANGED content

\* clear_feed_cache: the whole feed directory goes
ClearFeedCache(f) ==
    /\ OtherOp
    /\ content' = [content EXCEPT ![f] = [k \in DOMAIN content[f] |-> <<>>]]
    /\ summary' = [summary EXCEPT ![f] = [k \in DOMAIN summary[f] |-> <<>>]]
    /\ sentBy' = [sentBy EXCEPT ![f] = [k \in DOMAIN sentBy[f] |-> <<>>]]

\* the date changes
Tick ==
    /\ pc = "idle"
    /\ today < MaxDay
    /\ today' = today + 1
    /\ UNCHANGED <<content, summary, pc, cur, attempt, resps, upstream, writes,
                   ret, term, pre, prev, consec, sentBy, storeVars, digestVars,
                   runVars>>

Next ==
    \/ \E e \in Entries, f \in FeedIds, force \in BOOLEAN :
          SummarizeEntry(e, f, force)
    \/ \E u \in Upstream : Attempt(u)
    \/ \E f \in FeedIds, k \in EntryIds, text \in ContentTexts, ok \in BOOLEAN :
          CacheContent(f, k, text, ok)
    \/ \E f \in FeedIds, k \in EntryIds, rec \in DirectRecords, ok \in BOOLEAN :
          CacheSummary(f, k, rec, ok)
    \/ \E f \in FeedIds, k \in EntryIds : ClearEntrySummary(f, k)
    \/ \E f \in FeedIds : ClearFeedCache(f)
    \/ Tick

Spec == Init /\ [][Next]_vars

\* ========================================================== generate_digest
\* a retry loop that gives up after two attempts
max_retries_two == 3 - 1

max_retries == 3
retry_delay == 3                 \* seconds

\* the feed title that main and FeedManager put into every entry of a feed
FeedTitle(f) == Str(<<"Title of ", f>>)

\* an entry as generate_digest gets it: the feed entry with its feed_id key
\* (and, through it, its feed_title)
Item(e, f) == [entry |-> e, feed_id |-> f]

\* float(text): the decimal digit strings are the numeric strings used here
DigitChars == <<"0", "1", "2", "3", "4", "5", "6", "7", "8", "9">>

FloatParses(text) ==
    /\ text # <<>>
    /\ \A i \in 1..Len(text) : \E d \in 1..10 : DigitChars[d] = text[i]

DigitVal(c) == (CHOOSE d \in 1..10 : DigitChars[d] = c) - 1

RECURSIVE ParseFloat(_)
ParseFloat(text) ==
    IF Len(text) = 1 THEN DigitVal(text[1])
    ELSE 10 * ParseFloat(SubSeq(text, 1, Len(text) - 1)) + DigitVal(text[Len(text)])

\* a normalization whose float() never succeeds
NormalizeImportance_nofloat(rec) ==
    LET importance == GetOr(rec.importance, Num(0))
    IN  IF IsStr(importance) THEN Num(5) ELSE importance

\* lines 176-181: the importance that goes into the threshold test
NormalizeImportance(rec) ==
    LET importance == GetOr(rec.importance, Num(0))
    IN  IF IsStr(importance)
        THEN IF FloatParses(importance.s) THEN Num(ParseFloat(importance.s))
             ELSE Num(5)
        ELSE importance

\* `importance >= 5` raises TypeError for None and for a list
ThresholdRaises(importance) == importance.t \in {"none", "list"}

\* `phrase in summary.get('summary', '')` raises TypeError for None, a number
\* or a bool
TextTestRaises(rec) == GetOr(rec.summary, Str(<<>>)).t \in {"none", "num", "bool"}

\* the two phrases of line 184
DigestSentinel(text) ==
    \/ Contains(text, "API request failed")
    \/ Contains(text, "could not be extracted")

\* lines 159-207 for one entry: what the loop body does with it
DigestDecision(item) ==
    IF KeyRaises(item.entry) THEN "nokey"
    ELSE LET cached == get_entry_summary(item.feed_id, create_entry_cache_key(item.entry))
         IN  IF ~CacheHit(cached) THEN "nosummary"
             ELSE LET importance == NormalizeImportance(cached[1])
                  IN  IF ThresholdRaises(importance) THEN "raise"
                      ELSE IF importance.n >= 5 THEN "include"
                      ELSE IF TextTestRaises(cached[1]) THEN "raise"
                      ELSE IF DigestSentinel(GetOr(cached[1].summary, Str(<<>>)).s)
                           THEN "include"
                           ELSE "skip"

\* lines 188-195: the cached record with its missing identity keys filled in
FillSummary(rec, item) ==
    [importance |-> rec.importance, summary |-> rec.summary, impact |-> rec.impact,
     full  |-> rec.full,
     title |-> IF rec.title = Missing THEN GetOr(item.entry.title, Str(<<>>))
               ELSE rec.title,
     date  |-> IF rec.date = Missing THEN GetOr(item.entry.published, Str(<<>>))
               ELSE rec.date,
     url   |-> IF rec.url = Missing THEN GetOr(item.entry.link, Str(<<>>))
               ELSE rec.url,
     feed  |-> FeedTitle(item.feed_id)]

\* lines 197-203: the element appended to the batch
BatchElement(item) ==
    LET rec == get_entry_summary(item.feed_id, create_entry_cache_key(item.entry))[1]
    IN  [title   |-> GetOr(item.entry.title, Str(<<>>)),
         summary |-> FillSummary(rec, item),
         date    |-> GetOr(item.entry.published, Str(<<>>)),
         url     |-> GetOr(item.entry.link, Str(<<>>)),
         feed    |-> FeedTitle(item.feed_id)]

\* lines 157-207: the loop over the entries, from the first; raised is TRUE
\* when the loop body raised (the batch is then lost)
RECURSIVE BuildBatch(_, _)
BuildBatch(items, batch) ==
    IF items = <<>> THEN [raised |-> FALSE, batch |-> batch]
    ELSE LET decision == DigestDecision(Head(items))
         IN  IF decision = "raise" THEN [raised |-> TRUE, batch |-> batch]
             ELSE IF decision = "include"
             THEN BuildBatch(Tail(items), Append(batch, BatchElement(Head(items))))
             ELSE BuildBatch(Tail(items), batch)

\* a decoded digest response, or a returned digest: a dict with these keys
DObj(stories, news, newsStories, other) ==
    [stories |-> stories, news |-> news, newsStories |-> newsStories, other |-> other,
     high_impact |-> Missing, significant |-> Missing]

\* line 213
EmptyDigest ==
    [stories |-> Missing, news |-> Missing, newsStories |-> Missing, other |-> Missing,
     high_impact |-> Lst(<<>>), significant |-> Lst(<<>>)]

\* bool(dict)
DTruthy(d) ==
    \/ d.stories # Missing \/ d.news # Missing \/ d.newsStories # Missing
    \/ d.other # Missing \/ d.high_impact # Missing \/ d.significant # Missing

StoriesList == Lst(<<"story">>)
NewsList    == Lst(<<"news item">>)
OtherList   == Lst(<<"newsStories item">>)

DigestObjects ==
    { DObj(Missing, Missing, Missing, Missing),                 \* {}
      DObj(StoriesList, Missing, Missing, Missing),
      DObj(Str(<<"no list">>), Missing, Missing, Missing),
      DObj(Missing, NewsList, Missing, Str(<<"meta">>)),
      DObj(Missing, Missing, OtherList, Missing),
      DObj(StoriesList, NewsList, Missing, Missing),
      DObj(Missing, NewsList, OtherList, Missing) }

DigestUpstream ==
    {[kind |-> k, obj |-> EmptyRec] : k \in {"exception", "http_error", "no_choices", "no_json"}}
    \cup {[kind |-> "object", obj |-> d] : d \in DigestObjects}

\* lines 272-278
RenameNews(parsed) ==
    IF parsed.news # Missing
    THEN [parsed EXCEPT !.stories = parsed.news, !.news = Missing]
    ELSE IF parsed.newsStories # Missing
    THEN [parsed EXCEPT !.stories = parsed.newsStories, !.newsStories = Missing]
    ELSE parsed

\* line 285
ValidDigest(parsed) == DTruthy(parsed) /\ parsed.stories # Missing

\* lines 153-267: the call up to its first upstream attempt.  It raises when
\* the threshold test raises, returns the empty shape when the batch is empty.
DigestStart(entries) ==
    /\ dpc = "idle"
    /\ dcur' = entries
    /\ digest_resps' = <<>>
    /\ digest_sleeps' = <<>>
    /\ digest_attempt' = 0
    /\ LET built == BuildBatch(entries, <<>>)
       IN  IF built.raised
           THEN /\ dpc' = "raised"
                /\ digest_exc' = "TypeError"
                /\ digest_ret' = <<>>
                /\ entries_with_summaries' = built.batch
           ELSE /\ entries_with_summaries' = built.batch
                /\ digest_exc' = "none"
                /\ IF built.batch = <<>>
                   THEN dpc' = "returned" /\ digest_ret' = <<EmptyDigest>>
                   ELSE dpc' = "retrying" /\ digest_ret' = <<>>

\* lines 268-302: one pass of the retry loop, with the upstream doing u
DigestAttempt(u) ==
    /\ dpc = "retrying"
    /\ digest_attempt < max_retries
    /\ LET received == make_ai_request(u)
           parsed_response ==
               IF received # <<>> /\ DTruthy(received[1])
               THEN <<RenameNews(received[1])>> ELSE received
       IN  /\ digest_resps' = Append(digest_resps, received)
           /\ IF parsed_response # <<>> /\ ValidDigest(parsed_response[1])
              THEN /\ dpc' = "returned"
                   /\ digest_ret' = parsed_response
                   /\ UNCHANGED <<digest_attempt, digest_sleeps, digest_exc>>
              ELSE /\ digest_attempt' = digest_attempt + 1
                   /\ digest_ret' = <<>>
                   /\ IF digest_attempt + 1 < max_retries
                      THEN /\ digest_sleeps' = Append(digest_sleeps, retry_delay)
                           /\ UNCHANGED <<dpc, digest_exc>>
                      ELSE /\ dpc' = "raised"
                           /\ digest_exc' = "RuntimeError"
                           /\ UNCHANGED digest_sleeps
    /\ UNCHANGED <<dcur, entries_with_summaries>>

\* ------------------------------------------- generate_digest over a cache
\* The cache a digest call can find: under the key of E1 any record that
\* summarize_entry can have stored (whatever importance the upstream gave it,
\* a plain or a sentinel text), under the key of E6 a low-rated record or a
\* success record with its identity echoed.
E6 == Entry(Str(<<"B">>), Str(Link1), Missing, Str(<<"d">>))

DigestIds == {create_entry_cache_key(e) : e \in {E1, E6}}

ImportanceValues ==
    {Missing, NoneV, Num(2), Num(5), Str(<<"7">>), Str(<<"2">>), Str(<<"h", "i">>)}

TextValues ==
    {Missing, Str(<<"Not very important.">>),
     SentExtract.summary, SentParse.summary, SentApi.summary}

CachedRecords == {Rec(i, t, Missing, Missing) : i \in ImportanceValues, t \in TextValues}

DigestInputs ==
    { <<>>,
      <<Item(E1, "feedA")>>,
      <<Item(E1, "feedA"), Item(E6, "feedA")>>,
      <<Item(E6, "feedA"), Item(E1, "feedA")>>,
      <<Item(E3, "feedA"), Item(E6, "feedA")>> }

DigestInit ==
    /\ content \in [FeedIds -> [DigestIds -> {<<>>}]]
    /\ \E r1 \in {<<>>} \cup {<<r>> : r \in CachedRecords},
          r6 \in {<<>>, <<LowRec>>, <<EchoIdentity(GoodRec, E6)>>} :
          summary = [f \in FeedIds |->
                        [k \in DigestIds |->
                            IF k = create_entry_cache_key(E1) THEN r1 ELSE r6]]
    /\ sentBy = [f \in FeedIds |-> [k \in DigestIds |-> <<>>]]
    /\ today = 0 /\ pc = "idle" /\ cur = NoCall /\ attempt = 0 /\ resps = <<>>
    /\ upstream = 0 /\ writes = <<>> /\ ret = <<>> /\ term = "none"
    /\ pre = NoFiles /\ prev = NoPrev /\ consec = FALSE
    /\ NoPuts(FeedIds, DigestIds)
    /\ NoDigest
    /\ NoRun

GenerateDigest(entries) ==
    /\ DigestStart(entries)
    /\ UNCHANGED <<summarizeVars, runVars>>

DigestRetry(u) ==
    /\ DigestAttempt(u)
    /\ UNCHANGED <<summarizeVars, runVars>>

DigestNext ==
    \/ \E entries \in DigestInputs : GenerateDigest(entries)
    \/ \E u \in DigestUpstream : DigestRetry(u)

DigestSpec == DigestInit /\ [][DigestNext]_vars

\* ===================================================================== main
\* what ContentProcessor.process_entry can extract for an item that has no
\* cached content: nothing, or a text
Extracted == {NoneV} \cup {t \in ContentTexts : Truthy(t)}

\* a run that hands the digest to the renderer whatever generate_digest did
AfterDigest_render == "render"

\* rssky.py 211-221: after generate_digest the run goes on to the renderer
\* when the call returned, and to the except clause when it raised
AfterDigest == IF dpc = "raised" THEN "except" ELSE "render"

\* rssky.py 180-199, one pass of the loop over the entries of a feed, up to
\* the summarize_entry call: the date filter, process_entry (which caches the
\* text it extracts), the cache key, has_entry_summary.  An exception from
\* create_entry_cache_key (line 195) is caught by the except clause of main
\* (lines 219-221).
RunItem(in_range, extracted, ok) ==
    /\ run_pc = "items"
    /\ feed_entries # <<>>
    /\ pc = "idle"
    /\ ForgetCall
    /\ UNCHANGED <<today, pc, attempt, summary, sentBy, storeVars, digestVars, rendered>>
    /\ LET entry == Head(feed_entries)
       IN  IF ~in_range
           THEN /\ feed_entries' = Tail(feed_entries)
                /\ UNCHANGED <<content, run_pc, all_processed_entries, status>>
           ELSE IF KeyRaises(entry)
           THEN /\ run_pc' = "exit"
                /\ status' = <<3>>
                /\ UNCHANGED <<content, feed_entries, all_processed_entries>>
           ELSE LET entry_id == create_entry_cache_key(entry)
                    cached   == get_cached_content("feedA", entry_id)
                IN  /\ content' = IF Truthy(cached) \/ ~Truthy(extracted)
                                  THEN content
                                  ELSE cache_content("feedA", entry_id, extracted, ok)
                    /\ status' = status
                    /\ IF has_entry_summary("feedA", entry_id)
                       THEN /\ all_processed_entries' = Append(all_processed_entries, entry)
                            /\ feed_entries' = Tail(feed_entries)
                            /\ run_pc' = "items"
                       ELSE /\ run_pc' = "summarize"
                            /\ UNCHANGED <<feed_entries, all_processed_entries>>

\* rssky.py 197: the summarize_entry call for the entry at hand
RunSummarize ==
    /\ run_pc = "summarize"
    /\ term = "none"
    /\ SummarizeEntry(Head(feed_entries), "feedA", FALSE)

\* the retry loop of that call
RunAttempt(u) ==
    /\ run_pc = "summarize"
    /\ Attempt(u)

\* rssky.py 197-202: the call is over; an exception it raised is caught by
\* the except clause of main, otherwise the entry is appended
RunAfterCall ==
    /\ run_pc = "summarize"
    /\ pc = "idle"
    /\ term \notin {"none", "running"}
    /\ IF term = "raised"
       THEN /\ run_pc' = "exit"
            /\ status' = <<3>>
            /\ UNCHANGED <<feed_entries, all_processed_entries>>
       ELSE /\ all_processed_entries' = Append(all_processed_entries, Head(feed_entries))
            /\ feed_entries' = Tail(feed_entries)
            /\ run_pc' = "items"
            /\ status' = status
    /\ UNCHANGED <<summarizeVars, digestVars, rendered>>

\* rssky.py 208-212: the loop is over, generate_digest is called
RunDigest ==
    /\ run_pc = "items"
    /\ feed_entries = <<>>
    /\ DigestStart([i \in 1..Len(all_processed_entries) |->
                       Item(all_processed_entries[i], "feedA")])
    /\ run_pc' = "digest"
    /\ UNCHANGED <<summarizeVars, feed_entries, all_processed_entries, rendered, status>>

\* the retry loop of generate_digest
RunDigestAttempt(u) ==
    /\ run_pc = "digest"
    /\ DigestAttempt(u)
    /\ UNCHANGED <<summarizeVars, runVars>>

\* rssky.py 212-221: the renderer (create_daily_report, then update_index,
\* either of which may raise) and the return code of main
RunFinish(fails) ==
    /\ run_pc = "digest"
    /\ dpc \in {"returned", "raised"}
    /\ run_pc' = "exit"
    /\ IF AfterDigest = "except"
       THEN rendered' = rendered /\ status' = <<3>>
       ELSE CASE fails = "create_daily_report" ->
                    /\ rendered' = <<"create_daily_report">>
                    /\ status' = <<3>>
              [] fails = "update_index" ->
                    /\ rendered' = <<"create_daily_report", "update_index">>
                    /\ status' = <<3>>
              [] OTHER ->
                    /\ rendered' = <<"create_daily_report", "update_index">>
                    /\ status' = <<0>>
    /\ UNCHANGED <<summarizeVars, digestVars, feed_entries, all_processed_entries>>

\* the feeds' entries of a run, the upstream answers to its summary requests
\* and to its digest requests
RunInputs ==
    {<<>>} \cup {<<a>> : a \in {E1, E2, E3, E5}}
           \cup {<<a, b>> : a \in {E1, E2, E3, E5}, b \in {E1, E2, E3, E5}}

RunUpstream ==
    {[kind |-> "exception", obj |-> EmptyRec],
     [kind |-> "object", obj |-> GoodRec],
     [kind |-> "object", obj |-> SentApi]}

RunDigestUpstream ==
    {[kind |-> "exception", obj |-> EmptyRec],
     [kind |-> "object", obj |-> DObj(Missing, Missing, Missing, Missing)],
     [kind |-> "object", obj |-> DObj(StoriesList, Missing, Missing, Missing)]}

RunInit ==
    /\ content  = [f \in FeedIds |-> [k \in EntryIds |-> <<>>]]
    /\ summary  = [f \in FeedIds |-> [k \in EntryIds |-> <<>>]]
    /\ sentBy   = [f \in FeedIds |-> [k \in EntryIds |-> <<>>]]
    /\ today = 0 /\ pc = "idle" /\ cur = NoCall /\ attempt = 0 /\ resps = <<>>
    /\ upstream = 0 /\ writes = <<>> /\ ret = <<>> /\ term = "none"
    /\ pre = NoFiles /\ prev = NoPrev /\ consec = FALSE
    /\ NoPuts(FeedIds, EntryIds)
    /\ NoDigest
    /\ run_pc = "items"
    /\ feed_entries \in RunInputs
    /\ all_processed_entries = <<>>
    /\ rendered = <<>>
    /\ status = <<>>

RunNext ==
    \/ \E in_range \in BOOLEAN, extracted \in Extracted, ok \in BOOLEAN :
          RunItem(in_range, extracted, ok)
    \/ RunSummarize
    \/ \E u \in RunUpstream : RunAttempt(u)
    \/ RunAfterCall
    \/ RunDigest
    \/ \E u \in RunDigestUpstream : RunDigestAttempt(u)
    \/ \E fails \in {"none", "create_daily_report", "update_index"} : RunFinish(fails)

RunSpec == RunInit /\ [][RunNext]_vars

\* ============================================== CacheManager, used directly
StoreFeeds == {"feedA", "feedB"}
StoreIds   == {create_entry_cache_key(e) : e \in {E1, E6}}

\* the records put: a low-rated one as the tests store it, and a stored
\* success whose values are a number, strings, a null, a list and a bool
MixedRec ==
    [EchoIdentity(GoodRec, E6) EXCEPT !.impact = NoneV, !.date = Lst(<<"2023", "01">>)]

StoreRecords == {LowRec, MixedRec}

\* clear_entry_summary: the file is unlinked, unless the unlink fails
clear_entry_summary(f, k, ok) ==
    IF ok THEN [summary EXCEPT ![f][k] = <<>>] ELSE summary

\* shutil.rmtree of the entry directories in gone
RemoveEntries(files, gone) ==
    [f \in DOMAIN files |->
        [k \in DOMAIN files[f] |-> IF <<f, k>> \in gone THEN <<>> ELSE files[f][k]]]

\* a feed whose subtree is the whole cache
EntriesOf_all(f) ==
    UNION {{<<g, k>> : k \in DOMAIN summary[g]} : g \in DOMAIN summary}

\* the identities of a feed, and all of them
EntriesOf(f) == {<<f, k>> : k \in DOMAIN summary[f]}
AllEntries == UNION {EntriesOf(f) : f \in DOMAIN summary}

\* the entry directories that exist
Existing == {x \in AllEntries : summary[x[1]][x[2]] # <<>> \/ content[x[1]][x[2]] # <<>>}

Op(name) == [name |-> name, f |-> "", k |-> <<>>, rec |-> <<>>, ok |-> TRUE]

\* the operations leave the summarization, the digest and the run alone
StoreOnly ==
    UNCHANGED <<today, pc, cur, attempt, resps, upstream, writes, ret, term, pre,
                prev, consec, sentBy, treeVars, idVars, raceVars, digestVars,
                runVars>>

PutSummary(f, k, rec, ok) ==
    /\ summary' = cache_summary(f, k, rec, ok)
    /\ put' = [put EXCEPT ![f][k] = IF ok THEN <<rec>> ELSE <<>>]
    /\ last_op' = [name |-> "cache_summary", f |-> f, k |-> k, rec |-> <<rec>>, ok |-> ok]
    /\ UNCHANGED content
    /\ StoreOnly

PutContent(f, k, text, ok) ==
    /\ content' = cache_content(f, k, text, ok)
    /\ last_op' = Op("cache_content")
    /\ UNCHANGED <<summary, put>>
    /\ StoreOnly

RemoveSummary(f, k, ok) ==
    /\ summary' = clear_entry_summary(f, k, ok)
    /\ put' = IF ok THEN [put EXCEPT ![f][k] = <<>>] ELSE put
    /\ last_op' = Op("clear_entry_summary")
    /\ UNCHANGED content
    /\ StoreOnly

\* clear_feed_cache, clear_all_cache and clean_old_cache remove entry
\* directories: those of a feed, all, or those whose modification time is
\* older than the retention period (any of the existing ones)
RemoveDirs(name, gone) ==
    /\ summary' = RemoveEntries(summary, gone)
    /\ content' = RemoveEntries(content, gone)
    /\ put' = RemoveEntries(put, gone)
    /\ last_op' = Op(name)
    /\ StoreOnly

ClearFeed(f) == RemoveDirs("clear_feed_cache", EntriesOf(f))
ClearAll == RemoveDirs("clear_all_cache", AllEntries)
CleanOld(old) == RemoveDirs("clean_old_cache", old)

StoreInit ==
    /\ content = [f \in StoreFeeds |-> [k \in StoreIds |-> <<>>]]
    /\ summary = [f \in StoreFeeds |-> [k \in StoreIds |-> <<>>]]
    /\ sentBy  = [f \in StoreFeeds |-> [k \in StoreIds |-> <<>>]]
    /\ today = 0 /\ pc = "idle" /\ cur = NoCall /\ attempt = 0 /\ resps = <<>>
    /\ upstream = 0 /\ writes = <<>> /\ ret = <<>> /\ term = "none"
    /\ pre = NoFiles /\ prev = NoPrev /\ consec = FALSE
    /\ NoPuts(StoreFeeds, StoreIds)
    /\ NoDigest
    /\ NoRun

StoreNext ==
    \/ \E f \in StoreFeeds, k \in StoreIds, rec \in StoreRecords, ok \in BOOLEAN :
          PutSummary(f, k, rec, ok)
    \/ \E f \in StoreFeeds, k \in StoreIds, ok \in BOOLEAN :
          PutContent(f, k, Str(<<"This is the article content.">>), ok)
    \/ \E f \in StoreFeeds, k \in StoreIds, ok \in BOOLEAN : RemoveSummary(f, k, ok)
    \/ \E f \in StoreFeeds : ClearFeed(f)
    \/ ClearAll
    \/ \E old \in SUBSET Existing : CleanOld(old)

StoreSpec == StoreInit /\ [][StoreNext]_vars

\* ============================================ the cache tree and its clock
\* max_age_hours * 3600 and timedelta(days = ...) in seconds
HourSecs == 3600
DaySecs  == 86400

\* the instants the clock takes: the start, one hour later, one day after that
Instants == {0, HourSecs, DaySecs + HourSecs}

\* get_cached_feed(feed_id, max_age_hours = 6)
DefaultMaxAge == 6

TreeFeeds == StoreFeeds
TreeIds   == StoreIds

ArticleText == Str(<<"This is the article content.">>)

\* feed_data as the parser gives it
FeedData(title, entries) == [title |-> title, entries |-> entries]

FetchedFeeds ==
    {FeedData(Str(<<"Test Feed">>), Lst(<<"entry 1", "entry 2">>)),
     FeedData(Missing, Missing)}

\* cache_feed: the dict that is written
CacheData(feed_data, t) ==
    [timestamp  |-> Num(t),
     feed_title |-> GetOr(feed_data.title, Str(<<"Unknown Feed">>)),
     entries    |-> GetOr(feed_data.entries, Lst(<<>>))]

FeedKeys == {"timestamp", "feed_title", "entries"}

\* json.dump(cache_data) and json.load of it
FeedJsonDump(data) == {[key |-> key, value |-> JsonLiteral(data[key])] : key \in FeedKeys}

FeedJsonLoad(doc) ==
    [key \in FeedKeys |-> PyValue((CHOOSE m \in doc : m.key = key).value)]

\* the entry directory holds a file
DirExists(f, k) == content[f][k] # <<>> \/ summary[f][k] # <<>>

\* the feed directory exists
FeedDirExists(f) ==
    \/ f \in feed_dirs
    \/ rawfeed[f] # <<>>
    \/ \E k \in DOMAIN summary[f] : DirExists(f, k)

\* get_rawfeed_path creates the feed directory; the mkdir, outside any try,
\* raises when the directory is not there and cannot be created
RawfeedPathRaises(f, mkdir_ok) == ~FeedDirExists(f) /\ ~mkdir_ok

\* the feed directories after the mkdir of get_rawfeed_path
get_rawfeed_path(f) == IF FeedDirExists(f) THEN feed_dirs ELSE feed_dirs \cup {f}

\* cache_age > max_age_seconds
TooOld(cache_age, max_age_hours) == cache_age > max_age_hours * HourSecs

\* get_cached_feed: <<>> (None) when the file is missing, when it cannot be
\* read or parsed (readable = FALSE), and when it is too old
get_cached_feed(f, max_age_hours, readable) ==
    IF rawfeed[f] = <<>> \/ ~readable
    THEN <<>>
    ELSE LET cache_data == rawfeed[f][1]
             cache_time == GetOr(cache_data.timestamp, Num(0)).n
             cache_age  == now - cache_time
         IN  IF TooOld(cache_age, max_age_hours) THEN <<>> ELSE <<cache_data>>

TreeOp(name, f, k, arg, ok, result, raised) ==
    [name |-> name, f |-> f, k |-> k, arg |-> arg, ok |-> ok,
     result |-> result, raised |-> raised]

\* the operations leave the summarization, the digest and the run alone
TreeOnly ==
    UNCHANGED <<today, pc, cur, attempt, resps, upstream, writes, ret, term, pre,
                prev, consec, sentBy, put, last_op, idVars, raceVars, digestVars,
                runVars>>

\* time passes
Advance(t) ==
    /\ t > now
    /\ now' = t
    /\ tree_op' = [NoTreeOp EXCEPT !.name = "advance"]
    /\ UNCHANGED <<content, summary, rawfeed, feed_dirs, mtime>>
    /\ TreeOnly

\* the directory's modification time after a file was created in it
Created(files, f, k, ok) ==
    IF ok /\ files[f][k] = <<>> THEN [mtime EXCEPT ![f][k] = now] ELSE mtime

TreePutContent(f, k, ok) ==
    /\ content' = cache_content(f, k, ArticleText, ok)
    /\ mtime' = Created(content, f, k, ok)
    /\ tree_op' = TreeOp("cache_content", f, k, <<>>, ok,
                         IF ok THEN <<ArticleText>> ELSE <<>>, FALSE)
    /\ UNCHANGED <<summary, rawfeed, feed_dirs, now>>
    /\ TreeOnly

TreePutSummary(f, k, ok) ==
    /\ summary' = cache_summary(f, k, LowRec, ok)
    /\ mtime' = Created(summary, f, k, ok)
    /\ tree_op' = TreeOp("cache_summary", f, k, <<>>, ok,
                         IF ok THEN <<LowRec>> ELSE <<>>, FALSE)
    /\ UNCHANGED <<content, rawfeed, feed_dirs, now>>
    /\ TreeOnly

\* a clear_entry_summary that reports a removal whenever the file was there
ClearedResult_existed(f, k, ok) == summary[f][k] # <<>>

\* clear_entry_summary returns True when the file was there and the unlink
\* did not fail
ClearedResult(f, k, ok) == summary[f][k] # <<>> /\ ok

TreeClearSummary(f, k, ok) ==
    /\ summary' = clear_entry_summary(f, k, ok)
    /\ mtime' = IF ClearedResult(f, k, ok)
                THEN [mtime EXCEPT ![f][k] = IF content[f][k] # <<>> THEN now ELSE 0]
                ELSE mtime
    /\ tree_op' = TreeOp("clear_entry_summary", f, k, <<>>, ok,
                         <<ClearedResult(f, k, ok)>>, FALSE)
    /\ UNCHANGED <<content, rawfeed, feed_dirs, now>>
    /\ TreeOnly

\* the three lookups of an entry directory; a file that is there but cannot
\* be read (readable = FALSE) reads as None
TreeQuery(name, f, k, readable) ==
    /\ tree_op' = TreeOp(name, f, k, <<>>, readable,
                     CASE name = "has_entry_summary" -> <<has_entry_summary(f, k)>>
                       [] name = "get_entry_summary" ->
                            IF readable THEN get_entry_summary(f, k) ELSE <<>>
                       [] OTHER ->
                            IF readable /\ content[f][k] # <<>>
                            THEN <<get_cached_content(f, k)>> ELSE <<>>,
                     FALSE)
    /\ UNCHANGED <<content, summary, rawfeed, feed_dirs, mtime, now>>
    /\ TreeOnly

TreeGetFeed(f, max_age_hours, readable, mkdir_ok) ==
    /\ tree_op' = IF RawfeedPathRaises(f, mkdir_ok)
                  THEN TreeOp("get_cached_feed", f, <<>>, max_age_hours, readable, <<>>, TRUE)
                  ELSE TreeOp("get_cached_feed", f, <<>>, max_age_hours, readable,
                              get_cached_feed(f, max_age_hours, readable), FALSE)
    /\ feed_dirs' = IF RawfeedPathRaises(f, mkdir_ok) THEN feed_dirs ELSE get_rawfeed_path(f)
    /\ UNCHANGED <<content, summary, rawfeed, mtime, now>>
    /\ TreeOnly

\* cache_feed: the snapshot is written with the time of the call; neither the
\* mkdir nor the write is inside a try
cache_feed(f, feed_data, ok) ==
    IF ok
    THEN [rawfeed EXCEPT ![f] = <<FeedJsonLoad(FeedJsonDump(CacheData(feed_data, now)))>>]
    ELSE rawfeed

TreeCacheFeed(f, feed_data, ok) ==
    /\ rawfeed' = cache_feed(f, feed_data, ok)
    /\ feed_dirs' \in (IF ok THEN {} ELSE {feed_dirs}) \cup {get_rawfeed_path(f)}
    /\ tree_op' = TreeOp("cache_feed", f, <<>>, <<feed_data>>, ok,
                         IF ok THEN <<CacheData(feed_data, now)>> ELSE <<>>, ~ok)
    /\ UNCHANGED <<content, summary, mtime, now>>
    /\ TreeOnly

\* FeedManager.get_feed_entries, with no since_date: the entries of the valid
\* snapshot, or of the feed fetched and cached; [] when the fetch or
\* cache_feed raises
GetFeedEntries(f, feed_data, fetch_ok, ok, readable, mkdir_ok) ==
    LET cached_feed == get_cached_feed(f, DefaultMaxAge, readable)
        fetched     == IF cached_feed = <<>> /\ fetch_ok THEN <<feed_data>> ELSE <<>>
    IN  IF RawfeedPathRaises(f, mkdir_ok)
        THEN /\ tree_op' = TreeOp("get_feed_entries", f, <<>>, <<>>, ok, <<>>, TRUE)
             /\ UNCHANGED <<content, summary, rawfeed, feed_dirs, mtime, now>>
             /\ TreeOnly
        ELSE /\ rawfeed' = IF fetched # <<>> THEN cache_feed(f, feed_data, ok) ELSE rawfeed
             /\ feed_dirs' = get_rawfeed_path(f)
             /\ tree_op' = TreeOp("get_feed_entries", f, <<>>, fetched, ok,
                    IF cached_feed # <<>>
                    THEN <<GetOr(cached_feed[1].entries, Lst(<<>>)).s>>
                    ELSE IF fetched # <<>> /\ ok
                         THEN <<CacheData(feed_data, now).entries.s>>
                         ELSE << <<>> >>,
                    FALSE)
             /\ UNCHANGED <<content, summary, mtime, now>>
             /\ TreeOnly

\* the tree without the entry directories in gone and the feeds in feeds
TreeRemove(gone, feeds) ==
    /\ content' = RemoveEntries(content, gone)
    /\ summary' = RemoveEntries(summary, gone)
    /\ mtime' = [f \in DOMAIN mtime |->
                    [k \in DOMAIN mtime[f] |-> IF <<f, k>> \in gone THEN 0 ELSE mtime[f][k]]]
    /\ rawfeed' = [f \in DOMAIN rawfeed |-> IF f \in feeds THEN <<>> ELSE rawfeed[f]]
    /\ feed_dirs' = feed_dirs \ feeds

\* clear_feed_cache: shutil.rmtree of the feed directory, outside any try
TreeClearFeed(f, ok) ==
    /\ IF ok THEN TreeRemove(EntriesOf(f), {f}) ELSE TreeRemove({}, {})
    /\ tree_op' = TreeOp("clear_feed_cache", f, <<>>, <<>>, ok, <<>>,
                         ~ok /\ FeedDirExists(f))
    /\ UNCHANGED now
    /\ TreeOnly

\* the orders in which iterdir can list the feed directories
FeedOrders == {<<"feedA", "feedB">>, <<"feedB", "feedA">>}

\* the feeds listed before position i
Before(order, i) == {order[j] : j \in 1..(i - 1)}

\* clear_all_cache: shutil.rmtree of every directory of the root, in the
\* order of the listing; the rmtree of the directory at position fail_at
\* (0 for none) fails and raises out of the call
TreeClearAll(order, fail_at) ==
    LET fails == fail_at # 0 /\ FeedDirExists(order[fail_at])
        done  == IF fails THEN Before(order, fail_at) ELSE TreeFeeds
    IN  /\ TreeRemove(UNION {EntriesOf(f) : f \in done}, done)
        /\ tree_op' = TreeOp("clear_all_cache", "", <<>>, <<>>, ~fails, <<>>, fails)
        /\ UNCHANGED now
        /\ TreeOnly

\* what can go wrong during a sweep: nothing; the rmtree of one entry
\* directory fails; an entry directory is removed by someone else before its
\* stat; a feed directory is removed by someone else before its is_dir test
\* ("feed_gone_early") or between that test and its listing ("feed_gone_late")
NoFault == [kind |-> "none", f |-> "", k |-> <<>>]

SweepFaults ==
    {NoFault}
    \cup {[kind |-> x, f |-> f, k |-> k] :
              x \in {"rmtree_fails", "entry_gone"}, f \in TreeFeeds, k \in TreeIds}
    \cup {[kind |-> x, f |-> f, k |-> <<>>] :
              x \in {"feed_gone_early", "feed_gone_late"}, f \in TreeFeeds}

\* entry_mtime < cutoff_timestamp
IsOlder(f, k, days) == mtime[f][k] < now - days * DaySecs

\* the feeds whose entry directories the walk goes through: the listing of a
\* feed directory that has gone raises out of both loops, into the outer
\* except, and the feeds after it in the order are never visited
Walked(order, fault) ==
    {order[i] : i \in {j \in 1..Len(order) :
        /\ ~(fault.kind = "feed_gone_early" /\ fault.f = order[j])
        /\ \A h \in 1..j : ~(fault.kind = "feed_gone_late" /\ fault.f = order[h])}}

\* the entry directories the sweep removes
Swept(days, order, fault) ==
    {x \in AllEntries :
        /\ x[1] \in Walked(order, fault)
        /\ DirExists(x[1], x[2])
        /\ ~(fault.kind \in {"rmtree_fails", "entry_gone"} /\ fault.f = x[1] /\ fault.k = x[2])
        /\ IsOlder(x[1], x[2], days)}

\* what someone else removed during the sweep
GoneEntries(fault) ==
    CASE fault.kind = "entry_gone" -> {<<fault.f, fault.k>>}
      [] fault.kind \in {"feed_gone_early", "feed_gone_late"} -> EntriesOf(fault.f)
      [] OTHER -> {}

GoneFeeds(fault) ==
    IF fault.kind \in {"feed_gone_early", "feed_gone_late"} THEN {fault.f} ELSE {}

\* clean_old_cache(days_to_keep)
TreeCleanOld(days, order, fault) ==
    /\ fault.kind = "entry_gone" => DirExists(fault.f, fault.k)
    /\ fault.kind = "rmtree_fails" =>
            DirExists(fault.f, fault.k) /\ IsOlder(fault.f, fault.k, days)
    /\ fault.kind # "feed_gone_late" => order = <<"feedA", "feedB">>
    /\ fault.kind \in {"feed_gone_early", "feed_gone_late"} => FeedDirExists(fault.f)
    /\ TreeRemove(Swept(days, order, fault) \cup GoneEntries(fault), GoneFeeds(fault))
    /\ tree_op' = TreeOp("clean_old_cache", fault.f, fault.k, days, fault.kind,
                         <<>>, FALSE)
    /\ UNCHANGED now
    /\ TreeOnly

TreeInit ==
    /\ content = [f \in TreeFeeds |-> [k \in TreeIds |-> <<>>]]
    /\ summary = [f \in TreeFeeds |-> [k \in TreeIds |-> <<>>]]
    /\ sentBy  = [f \in TreeFeeds |-> [k \in TreeIds |-> <<>>]]
    /\ today = 0 /\ pc = "idle" /\ cur = NoCall /\ attempt = 0 /\ resps = <<>>
    /\ upstream = 0 /\ writes = <<>> /\ ret = <<>> /\ term = "none"
    /\ pre = NoFiles /\ prev = NoPrev /\ consec = FALSE
    /\ NoPuts(TreeFeeds, TreeIds)
    /\ NoDigest
    /\ NoRun

\* the entry directories that get written: two of one feed, one of the other
TreeDirs == {x \in AllEntries : x[1] = "feedA" \/ x[2] = create_entry_cache_key(E1)}

\* the eviction sweep over a tree that is written while time passes
SweepNext ==
    \/ \E t \in Instants : Advance(t)
    \/ \E x \in TreeDirs : TreePutContent(x[1], x[2], TRUE)
    \/ \E x \in TreeDirs : TreePutSummary(x[1], x[2], TRUE)
    \/ TreeCacheFeed("feedA", FeedData(Missing, Missing), TRUE)
    \/ \E days \in {0, 1}, order \in FeedOrders, fault \in SweepFaults :
          TreeCleanOld(days, order, fault)

SweepSpec == TreeInit /\ [][SweepNext]_vars

\* the writes, lookups and removals of the tree at one instant
CacheNext ==
    \/ \E x \in TreeDirs, ok \in BOOLEAN : TreePutContent(x[1], x[2], ok)
    \/ \E x \in TreeDirs, ok \in BOOLEAN : TreePutSummary(x[1], x[2], ok)
    \/ \E x \in AllEntries, ok \in BOOLEAN : TreeClearSummary(x[1], x[2], ok)
    \/ \E name \in {"get_cached_content", "get_entry_summary", "has_entry_summary"},
          x \in AllEntries, readable \in BOOLEAN :
          TreeQuery(name, x[1], x[2], readable)
    \/ \E f \in TreeFeeds, readable \in BOOLEAN, mkdir_ok \in BOOLEAN :
          TreeGetFeed(f, DefaultMaxAge, readable, mkdir_ok)
    \/ \E f \in TreeFeeds, ok \in BOOLEAN : TreeCacheFeed(f, FeedData(Missing, Missing), ok)
    \/ \E f \in TreeFeeds, ok \in BOOLEAN : TreeClearFeed(f, ok)
    \/ \E order \in FeedOrders, fail_at \in 0..2 : TreeClearAll(order, fail_at)

CacheSpec == TreeInit /\ [][CacheNext]_vars

\* the snapshots of the feeds while time passes
FeedNext ==
    \/ \E t \in Instants : Advance(t)
    \/ \E f \in TreeFeeds, h \in {0, 1}, readable \in BOOLEAN, mkdir_ok \in BOOLEAN :
          TreeGetFeed(f, h, readable, mkdir_ok)
    \/ \E f \in TreeFeeds, d \in FetchedFeeds, ok \in BOOLEAN : TreeCacheFeed(f, d, ok)
    \/ \E f \in TreeFeeds, d \in FetchedFeeds, fetch_ok \in BOOLEAN, ok \in BOOLEAN,
          readable \in BOOLEAN, mkdir_ok \in BOOLEAN :
          GetFeedEntries(f, d, fetch_ok, ok, readable, mkdir_ok)
    \/ \E f \in TreeFeeds, ok \in BOOLEAN : TreeClearFeed(f, ok)

FeedSpec == TreeInit /\ [][FeedNext]_vars

\* ========================================================= the identities
\* the addresses of three feeds
Url1 == "https://example.com/feed/85953.xml"
Url2 == "https://example.com/feed/106126.xml"
Url3 == "https://example.com/feed.xml"

FeedUrls == {Url1, Url2, Url3}

\* the labels of the feeds: two titles, an empty one and none
FeedTitles == {Str(<<"n", "e", "w", "s">>), Str(<<"A", " ", "B">>), Str(<<>>), NoneV}

\* hashlib.sha1(feed_url.encode()).hexdigest(), character by character
Sha1Hex(url) ==
    CASE url = Url1 -> <<"4", "e", "b", "2", "6", "1", "c", "f", "8", "a",
                     "1", "2", "a", "4", "8", "5", "7", "6", "8", "b",
                     "6", "1", "f", "4", "7", "6", "3", "5", "c", "f",
                     "5", "9", "7", "5", "2", "a", "f", "2", "1", "a">>
      [] url = Url2 -> <<"4", "e", "b", "2", "6", "1", "c", "f", "7", "f",
                     "7", "6", "c", "8", "a", "f", "c", "5", "f", "8",
                     "7", "9", "4", "4", "1", "7", "5", "2", "a", "a",
                     "e", "e", "8", "d", "b", "e", "b", "a", "0", "f">>
      [] url = Url3 -> <<"6", "9", "0", "4", "f", "1", "c", "4", "2", "8",
                     "3", "b", "1", "a", "2", "c", "8", "2", "2", "a",
                     "d", "e", "4", "2", "a", "6", "4", "4", "d", "a",
                     "6", "5", "a", "6", "9", "4", "e", "b", "6", "2">>

\* the number of hex characters kept under a title: hexdigest()[:8]
UrlHashLen == 8

generate_feed_id(feed_url, feed_title) ==
    IF Truthy(feed_title)
    THEN safe_filename(feed_title.s) \o <<"_">>
         \o SubSeq(Sha1Hex(feed_url), 1, UrlHashLen)
    ELSE Sha1Hex(feed_url)

\* the places that derive the key of an item
KeySites == {"process_entry", "summarize_entry", "generate_digest"}

\* the item as each place sees it: the fields besides title, link and id
\* differ from one place to the next
SeenAt(site, entry) ==
    CASE site = "process_entry"   -> entry
      [] site = "summarize_entry" -> [entry EXCEPT !.updated = Str(<<"d">>)]
      [] site = "generate_digest" -> [entry EXCEPT !.published = Missing,
                                                   !.updated = Str(<<"d">>)]

IdOp(name, args, result, raised) ==
    [name |-> name, args |-> args, result |-> result, raised |-> raised]

\* a derivation is recorded after the one before it
Derived(op) ==
    /\ id_prev' = id_op
    /\ id_op' = op
    /\ UNCHANGED <<content, summary, today, pc, cur, attempt, resps, upstream,
                   writes, ret, term, pre, prev, consec, sentBy, put, last_op,
                   treeVars, raceVars, digestVars, runVars>>

GenerateFeedId(feed_url, feed_title) ==
    Derived(IdOp("generate_feed_id", <<feed_url, feed_title>>,
                 <<generate_feed_id(feed_url, feed_title)>>, FALSE))

CreateEntryCacheKey(site, entry) ==
    LET seen == SeenAt(site, entry)
    IN  Derived(IdOp("create_entry_cache_key", <<site, seen>>,
                     IF KeyRaises(seen) THEN <<>>
                     ELSE <<create_entry_cache_key(seen)>>,
                     KeyRaises(seen)))

\* an item without title, link and id
E0 == Entry(Missing, Missing, Missing, Missing)

KeyedEntries == Entries \cup {E0}

IdNext ==
    \/ \E u \in FeedUrls, t \in FeedTitles : GenerateFeedId(u, t)
    \/ \E site \in KeySites, e \in KeyedEntries : CreateEntryCacheKey(site, e)

IdSpec == Init /\ [][IdNext]_vars

\* ------------------------------------------------------------ the file names
Repeat(c, n) == [i \in 1..n |-> c]

\* the characters of the short texts: a letter, an underscore, a space, a
\* Cyrillic letter and a composed character
NameChars == {"A", "_", " ", "zhe", "E'"}

ShortLen == 3

\* the texts that are named: every short text, and three texts of just over
\* 100 characters
NameTexts ==
    UNION {[1..n -> NameChars] : n \in 0..ShortLen}
    \cup {Repeat("A", MaxNameLen + 1),
          Repeat("A", MaxNameLen - 1) \o <<" ", "B">>,
          Repeat("A", MaxNameLen) \o <<"_", "B">>}

SafeFilename(text) ==
    /\ id_prev' = NoIdOp
    /\ id_op' = IdOp("safe_filename", <<text>>, <<safe_filename(text)>>, FALSE)
    /\ UNCHANGED <<content, summary, today, pc, cur, attempt, resps, upstream,
                   writes, ret, term, pre, prev, consec, sentBy, put, last_op,
                   treeVars, raceVars, digestVars, runVars>>

NameNext == \E text \in NameTexts : SafeFilename(text)

NameSpec == Init /\ [][NameNext]_vars

\* ======================================= two processes on one summary file
\* Two processes run summarize_entry for the same item, which has cached
\* content and no cached summary; a third reads the summary.  The file is
\* shared, each process has its own file object (its own offset and buffer).
Procs == {"p1", "p2"}

\* the keys of a summary dict in the order they are written
KeyOrder == <<"importance", "summary", "impact", "date", "url", "title", "full">>

\* the text of one JSON literal, token by token
LiteralText(l) ==
    CASE l.lit = "string" -> <<"'">> \o l.text \o <<"'">>
      [] l.lit = "number" -> <<ToString(l.n)>>
      [] l.lit = "array"  -> <<"[">> \o l.text \o <<"]">>
      [] OTHER            -> <<l.lit>>

RECURSIVE MembersText(_, _)
MembersText(rec, keys) ==
    IF keys = <<>> THEN <<>>
    ELSE <<Head(keys), ":">> \o LiteralText(JsonLiteral(rec[Head(keys)]))
         \o (IF Len(keys) > 1 THEN <<",">> ELSE <<>>)
         \o MembersText(rec, Tail(keys))

\* json.dump(summary_data, f): the text of the object
JsonText(rec) ==
    LET Present(key) == rec[key].t # "missing"
    IN  <<"{">> \o MembersText(rec, SelectSeq(KeyOrder, Present)) \o <<"}">>

\* the records a call can end with: a success record with the identity
\* echoed, a sentinel record of the upstream, the synthesized fallback
RaceRecords ==
    {EchoIdentity(GoodRec, E1), SentExtract, generate_fallback_summary(E1, 0)}

\* json.load(f) on a file that holds text: the dict when the text is that of
\* one object, JSONDecodeError otherwise (an empty file, text after the object)
FileLoad(text) ==
    LET written == {r \in RaceRecords : JsonText(r) = text}
    IN  IF written = {} THEN [raised |-> TRUE, value |-> <<>>]
        ELSE [raised |-> FALSE,
              value |-> <<JsonLoad(JsonDump(CHOOSE r \in written : TRUE))>>]

\* get_entry_summary on the shared file: None when the file does not exist,
\* and when reading or decoding it raises
FileGet ==
    IF ~sumfile.exists THEN <<>>
    ELSE LET loaded == FileLoad(sumfile.text)
         IN  IF loaded.raised THEN <<>> ELSE loaded.value

\* f.write through the file object of the process: the text goes to the
\* offsets from 0 on, what the file holds beyond it stays
Overwritten(old, text) == text \o SubSeq(old, Len(text) + 1, Len(old))

Waiting == [pc |-> "start", rec |-> <<>>, ret |-> <<>>]

RaceOnly ==
    UNCHANGED <<content, summary, today, pc, cur, attempt, resps, upstream,
                writes, ret, term, pre, prev, consec, sentBy, put, last_op,
                treeVars, idVars, digestVars, runVars>>

\* lines 63-67: the look into the cache
RaceLookup(p) ==
    /\ writer[p].pc = "start"
    /\ LET cached_summary == FileGet
       IN  writer' = [writer EXCEPT ![p] =
                        IF CacheHit(cached_summary)
                        THEN [pc |-> "done", rec |-> <<>>, ret |-> cached_summary]
                        ELSE [pc |-> "asking", rec |-> <<>>, ret |-> <<>>]]
    /\ UNCHANGED <<sumfile, reads>>
    /\ RaceOnly

\* lines 99-151: the upstream invocations of the process end with the record r
RaceAnswer(p, r) ==
    /\ writer[p].pc = "asking"
    /\ writer' = [writer EXCEPT ![p] = [pc |-> "answered", rec |-> <<r>>, ret |-> <<>>]]
    /\ UNCHANGED <<sumfile, reads>>
    /\ RaceOnly

\* cache_summary, line 219: open(summary_path, 'w') creates or empties the file
RaceOpen(p) ==
    /\ writer[p].pc = "answered"
    /\ sumfile' = [exists |-> TRUE, text |-> <<>>]
    /\ writer' = [writer EXCEPT ![p].pc = "opened"]
    /\ UNCHANGED reads
    /\ RaceOnly

\* cache_summary, lines 220-223: the text is written when the file is closed;
\* summarize_entry returns the record
RaceWrite(p) ==
    /\ writer[p].pc = "opened"
    /\ sumfile' = [sumfile EXCEPT
                     !.text = Overwritten(sumfile.text, JsonText(writer[p].rec[1]))]
    /\ writer' = [writer EXCEPT ![p].pc = "done", ![p].ret = writer[p].rec]
    /\ UNCHANGED reads
    /\ RaceOnly

\* get_entry_summary of the third process
RaceRead ==
    /\ reads' = [result |-> FileGet, raised |-> FALSE]
    /\ UNCHANGED <<writer, sumfile>>
    /\ RaceOnly

RaceInit ==
    /\ content  = [f \in FeedIds |-> [k \in EntryIds |-> <<ArticleText>>]]
    /\ summary  = [f \in FeedIds |-> [k \in EntryIds |-> <<>>]]
    /\ sentBy   = [f \in FeedIds |-> [k \in EntryIds |-> <<>>]]
    /\ today = 0 /\ pc = "idle" /\ cur = NoCall /\ attempt = 0 /\ resps = <<>>
    /\ upstream = 0 /\ writes = <<>> /\ ret = <<>> /\ term = "none"
    /\ pre = NoFiles /\ prev = NoPrev /\ consec = FALSE
    /\ put = [f \in FeedIds |-> [k \in EntryIds |-> <<>>]]
    /\ last_op = NoOp
    /\ NoTree(FeedIds, EntryIds)
    /\ NoIds
    /\ writer = [p \in Procs |-> Waiting]
    /\ sumfile = NoFile
    /\ reads = NoRead
    /\ NoDigest
    /\ NoRun

RaceNext ==
    \/ \E p \in Procs : RaceLookup(p)
    \/ \E p \in Procs, r \in RaceRecords : RaceAnswer(p, r)
    \/ \E p \in Procs : RaceOpen(p)
    \/ \E p \in Procs : RaceWrite(p)
    \/ RaceRead

RaceSpec == RaceInit /\ [][RaceNext]_vars

\* ================================================================= claims
\* the last summarize_entry call has returned
Ended == pc = "idle" /\ ret # <<>>

\* the key of the last call, and the summary file under it now
CurKey == create_entry_cache_key(cur.entry)
Stored == summary[cur.feed][CurKey]

\* the call found non-empty extracted content / a non-empty cached record
HadContent == pre.content # <<>> /\ pre.content[1].t = "str" /\ Len(pre.content[1].s) > 0
HadSummary == pre.summary # <<>> /\ pre.summary[1] # EmptyRec

\* the phrases that mark a summary text as an error sentinel
SentinelPhrases == {"could not be extracted", "parsing error", "API request failed"}

\* r is a parsed record whose summary text carries a sentinel phrase
SentinelRecord(r) ==
    /\ r.summary.t = "str"
    /\ \E i \in 1..Len(r.summary.s) : r.summary.s[i] \in SentinelPhrases

\* r is a synthesized fallback record for the item e
FallbackShape(r, e) ==
    /\ r.importance = Num(5)
    /\ r.summary.t = "str"
    /\ Len(r.summary.s) >= 3
    /\ r.summary.s[2] = "could not be extracted"
    /\ SubSeq(r.summary.s, 4, Len(r.summary.s)) =
           (IF e.title.t = "missing" THEN <<"Unknown">>
            ELSE IF e.title.t = "none" THEN <<"None">> ELSE e.title.s)
    /\ r.url = Missing /\ r.title = Missing /\ r.full = Missing

\* the call wrote exactly rec, once, and the file holds it unless the write failed
WroteOnce(rec) ==
    /\ Len(writes) = 1
    /\ writes[1].rec = rec
    /\ writes[1].ok => Stored = <<rec>>

\* every attempt of the call ended without a parsed object
AllAttemptsUnparsed == \A i \in 1..Len(resps) : resps[i] = <<>>

\* every attempt of the call returned a sentinel record
AllAttemptsSentinel ==
    \A i \in 1..Len(resps) : resps[i] # <<>> /\ SentinelRecord(resps[i][1])

\* C1: with a summary cached for the identity, summarize_entry(force=false)
\* returns exactly the cached record, makes no upstream invocation and leaves
\* the cached summary unchanged, whether or not content is cached.
C1_CachedSummaryReturned ==
    (Ended /\ ~cur.force /\ ~KeyRaises(cur.entry) /\ HadSummary)
        => (ret = pre.summary /\ upstream = 0 /\ Stored = pre.summary)

\* the call before this one went to the upstream (content cached, no cache hit)
PrevFetched == prev.term \in {"success", "sentinel", "fallback"}

\* C2 (as stated): for any upstream behaviour, two consecutive force=false
\* calls on the same item, nothing in between, make exactly one upstream
\* invocation in total (the first call finding content but no summary, and
\* its write succeeding).
C2_ExactlyOneInTotal ==
    (Ended /\ consec /\ PrevFetched /\ prev.ok) => prev.up + upstream = 1

\* C2 (amended): when the first call's write did not fail, the second call
\* makes no upstream invocation; the total is the first call's count, at most
\* max_attempts, and exactly one when the first call succeeded on its first
\* attempt.
C2_SecondCallIsFree ==
    (consec /\ prev.ok)
        => /\ pc = "idle"
           /\ upstream = 0
           /\ prev.up + upstream <= 3
           /\ (prev.term = "success" /\ prev.up = 1) => prev.up + upstream = 1
           /\ (Ended /\ ~KeyRaises(cur.entry) /\ HadContent) => ret = pre.summary

C2_Witness ==
    /\ Ended /\ consec /\ prev.ok
    /\ prev.term = "success" /\ prev.up = 1
    /\ upstream = 0 /\ ret = pre.summary /\ HadContent

\* C3: content cached, no summary cached, every attempt unparsed or failed:
\* exactly 3 upstream invocations, then the synthesized fallback (importance 5,
\* "could not be extracted") is returned and cached; while fewer than 3 such
\* attempts have been made the call is still in its retry loop.
C3_ExhaustionYieldsFallback ==
    /\ (Ended /\ HadContent /\ pre.summary = <<>> /\ AllAttemptsUnparsed)
          => /\ upstream = 3
             /\ Len(resps) = 3
             /\ FallbackShape(ret[1], cur.entry)
             /\ WroteOnce(ret[1])
    /\ (Len(resps) \in 1..2 /\ AllAttemptsUnparsed)
          => pc = "fetching" /\ upstream = Len(resps)

C3_Witness ==
    /\ Ended /\ HadContent /\ pre.summary = <<>> /\ AllAttemptsUnparsed
    /\ upstream = 3 /\ Stored = ret /\ FallbackShape(ret[1], cur.entry)

\* C4: every attempt returns a sentinel record: exactly 3 upstream
\* invocations, then the record parsed from the third attempt itself is
\* cached and returned, without the echoed identity fields of a success and
\* not a synthesized fallback.
C4_ThirdSentinelPersisted ==
    (Ended /\ Len(resps) > 0 /\ AllAttemptsSentinel)
        => /\ upstream = 3
           /\ Len(resps) = 3
           /\ ret = resps[3]
           /\ WroteOnce(resps[3][1])
           /\ ~FallbackShape(ret[1], cur.entry)

C4_Witness ==
    /\ Ended /\ Len(resps) = 3 /\ AllAttemptsSentinel
    /\ resps[3] # resps[1] /\ resps[3] # resps[2]
    /\ ret = resps[3] /\ Stored = ret

\* C5: no cached summary and no cached content: no upstream invocation, the
\* synthesized fallback is cached and returned.
C5_MissingContentFallsBack ==
    (Ended /\ ~KeyRaises(cur.entry) /\ pre.summary = <<>> /\ pre.content = <<>>)
        => /\ upstream = 0
           /\ resps = <<>>
           /\ FallbackShape(ret[1], cur.entry)
           /\ WroteOnce(ret[1])

C5_Witness ==
    /\ Ended /\ ~KeyRaises(cur.entry) /\ pre.summary = <<>> /\ pre.content = <<>>
    /\ upstream = 0 /\ Stored = ret /\ FallbackShape(ret[1], cur.entry)

\* C6 (as stated): no content is ever cached for the item and every upstream
\* call returns malformed text: exactly 3 upstream invocations, and the cached
\* result is the fallback sentinel with importance 5.
C6_ThreeInvocationsWithoutContent ==
    (Ended /\ ~KeyRaises(cur.entry) /\ pre.content = <<>> /\ pre.summary = <<>>
           /\ AllAttemptsUnparsed)
        => /\ upstream = 3
           /\ writes # <<>> /\ writes[1].ok => Stored[1].importance = Num(5)

\* C6 (amended): in that situation the upstream is never invoked, and the
\* cached result is the fallback sentinel with importance 5.
C6_NoInvocationWithoutContent ==
    (Ended /\ ~KeyRaises(cur.entry) /\ pre.content = <<>> /\ pre.summary = <<>>
           /\ AllAttemptsUnparsed)
        => /\ upstream = 0
           /\ Len(writes) = 1
           /\ writes[1].ok => /\ Stored # <<>>
                              /\ Stored[1].importance = Num(5)
                              /\ FallbackShape(Stored[1], cur.entry)

C6_Witness ==
    /\ Ended /\ ~KeyRaises(cur.entry) /\ pre.content = <<>> /\ pre.summary = <<>>
    /\ AllAttemptsUnparsed /\ upstream = 0
    /\ Len(writes) = 1 /\ writes[1].ok
    /\ Stored # <<>> /\ Stored[1].importance = Num(5)

\* the call found content and, not being forced, a usable cached summary
HitCase == ~KeyRaises(cur.entry) /\ HadContent /\ ~cur.force /\ HadSummary

\* C7 (as stated): every summarize_entry call, whichever terminal state it
\* ends in (cache hit, success, persisted sentinel, fallback), performs
\* exactly one summary write before it returns.
C7_ExactlyOneWrite == (Ended /\ ~KeyRaises(cur.entry)) => Len(writes) = 1

\* C7 (amended): a call that ends in a cache hit, or that cannot derive the
\* item key, performs no summary write; every other call that returns
\* performs exactly one, as its last step.
C7_OneWriteUnlessHit ==
    /\ Ended => Len(writes) = (IF HitCase \/ KeyRaises(cur.entry) THEN 0 ELSE 1)
    /\ ~Ended => writes = <<>>

C7_Witness ==
    /\ Ended /\ ~HitCase /\ ~KeyRaises(cur.entry)
    /\ upstream = 2 /\ Len(writes) = 1 /\ writes[1].rec = ret[1]

\* C8: whenever summarize_entry returns a synthesized fallback record, that
\* record has been written to the cache for the item before the return (by
\* this call, or it is the cached record that a cache hit returned), also
\* when the item key cannot be derived.
C8_FallbackAlwaysCached ==
    (Ended /\ FallbackShape(ret[1], cur.entry))
        => \/ writes # <<>> /\ writes[Len(writes)].rec = ret[1]
           \/ ~KeyRaises(cur.entry) /\ Stored = ret

\* the identity fields of the item e echoed into the record r
Echoed(r, e) ==
    [r EXCEPT !.url   = IF e.link.t = "missing" THEN Str(<<>>) ELSE e.link,
              !.title = IF e.title.t = "missing" THEN Str(<<>>) ELSE e.title,
              !.full  = TrueV]

\* the k-th attempt is the first for which P holds
FirstWith(P(_), k) == P(resps[k]) /\ \A j \in 1..(k - 1) : ~P(resps[j])

\* the call ended at its k-th attempt, caching and returning that attempt's
\* record with the item's title and url echoed into it
EndedAtAttempt(k) ==
    /\ Ended
    /\ upstream = k
    /\ Len(resps) = k
    /\ ret = <<Echoed(resps[k][1], cur.entry)>>
    /\ WroteOnce(ret[1])

\* a parsed record whose summary is not an error sentinel
ParsedNonSentinel(r) == r # <<>> /\ ~SentinelRecord(r[1])

\* C9 (as stated): if the k-th attempt is the first to return a parsed record
\* whose summary is not an error sentinel, the call makes exactly k upstream
\* invocations, caches and returns that record with title and url echoed, and
\* makes no further attempt.
C9_FirstNonSentinelEndsCall ==
    \A k \in 1..Len(resps) : FirstWith(ParsedNonSentinel, k) => EndedAtAttempt(k)

\* a non-empty parsed record whose summary is a string free of sentinel
\* phrases, or is missing
Usable(r) ==
    /\ r # <<>>
    /\ r[1] # EmptyRec
    /\ r[1].summary.t \in {"str", "missing"}
    /\ ~SentinelRecord(r[1])

\* C9 (amended): the same, for the first attempt that returns a non-empty
\* record whose summary is a string (or missing) and no error sentinel; an
\* empty record and a record whose summary is not a string count as failed
\* attempts.
C9_FirstUsableEndsCall ==
    \A k \in 1..Len(resps) : FirstWith(Usable, k) => EndedAtAttempt(k)

C9_Witness ==
    /\ Len(resps) = 3 /\ FirstWith(Usable, 3) /\ EndedAtAttempt(3)
    /\ resps[1] = <<>> /\ resps[2] # <<>> /\ Stored = ret
    /\ ret[1].title = cur.entry.title

\* C10: once a call has ended by caching a sentinel or fallback record for an
\* item, a later force=false call for that item (the record still cached)
\* makes no upstream invocation and returns the cached sentinel.
C10_CachedSentinelReturned ==
    (Ended /\ ~cur.force /\ pre.sent = <<cur.entry>>)
        => (upstream = 0 /\ ret = pre.summary)

\* the last summarize_entry call is over: it returned or it raised
CallOver == pc = "idle" /\ term \notin {"none", "running"}

\* C11: summarize_entry with force=true on an item with cached content and a
\* cached summary ignores the cached summary: it makes at least one upstream
\* invocation and returns a record, which it has written over the old one
\* (the file holds it unless that write hit an I/O error).
C11_ForceRefreshOverwrites ==
    (CallOver /\ cur.force /\ HadContent /\ HadSummary)
        => /\ upstream >= 1
           /\ ret # <<>>
           /\ WroteOnce(ret[1])

\* ---------------------------------------------------------- generate_digest
\* the last generate_digest call got as far as its batch
BatchBuilt == dpc \in {"retrying", "returned", "raised"} /\ digest_exc # "TypeError"

\* the last generate_digest call is over
DigestOver == dpc \in {"returned", "raised"}

\* the summary file of an item of the batch input
StoredFor(item) ==
    IF KeyRaises(item.entry) THEN <<>>
    ELSE summary[item.feed_id][create_entry_cache_key(item.entry)]

\* the item has a cached summary (a record with at least one key)
HasCachedSummary(item) == StoredFor(item) # <<>> /\ StoredFor(item)[1] # EmptyRec

\* the item is in the batch
InBatch(item) ==
    \E j \in 1..Len(entries_with_summaries) :
        /\ entries_with_summaries[j].title =
               (IF item.entry.title.t = "missing" THEN Str(<<>>) ELSE item.entry.title)
        /\ entries_with_summaries[j].summary.importance = StoredFor(item)[1].importance
        /\ entries_with_summaries[j].summary.summary = StoredFor(item)[1].summary

\* an attempt that errored, or returned an object without a stories key
NoStoriesKey(r) == r = <<>> \/ r[1].stories.t = "missing"

\* an attempt that errored, or returned an object with none of the keys
\* stories, news, newsStories
NoDigestKey(r) ==
    \/ r = <<>>
    \/ /\ r[1].stories.t = "missing"
       /\ r[1].news.t = "missing"
       /\ r[1].newsStories.t = "missing"

RatedBelowFive(rec) ==
    /\ \/ rec.importance.t = "num" /\ rec.importance.n < 5
       \/ rec.importance \in {Str(<<"0">>), Str(<<"1">>), Str(<<"2">>), Str(<<"3">>), Str(<<"4">>)}
    /\ rec.summary.t \in {"str", "missing"}
    /\ ~SentinelRecord(rec)

\* the item does not qualify for the batch
DoesNotQualify(item) ==
    \/ ~HasCachedSummary(item)
    \/ RatedBelowFive(StoredFor(item)[1])

\* C14: when no input item qualifies for the batch (no cached summary, or
\* importance below 5 and no sentinel text), generate_digest returns the empty
\* result shape, without raising and without any upstream invocation.
C14_EmptyBatchReturnsEmptyShape ==
    (dpc # "idle" /\ \A i \in 1..Len(dcur) : DoesNotQualify(dcur[i]))
        => /\ dpc = "returned"
           /\ digest_exc = "none"
           /\ digest_ret = <<[stories |-> Missing, news |-> Missing,
                              newsStories |-> Missing, other |-> Missing,
                              high_impact |-> Lst(<<>>), significant |-> Lst(<<>>)]>>
           /\ digest_resps = <<>>
           /\ entries_with_summaries = <<>>

C14_Witness ==
    /\ dpc = "returned" /\ Len(dcur) = 2
    /\ \A i \in 1..2 : HasCachedSummary(dcur[i]) /\ RatedBelowFive(StoredFor(dcur[i])[1])
    /\ StoredFor(dcur[1])[1].importance.t = "str"
    /\ digest_resps = <<>>
    /\ digest_ret # <<>> /\ digest_ret[1].high_impact = Lst(<<>>)

\* the number the record's importance normalizes to, when it does
RatedAtLeastFive(rec) ==
    /\ NormalizeImportance(rec).t = "num"
    /\ NormalizeImportance(rec).n >= 5

\* C15: an item is in the batch exactly when it has a cached summary and
\* either its normalized importance is >= 5 or its summary text carries one of
\* the sentinel phrases of the summarization pipeline (request failed, parsing
\* error, could not be extracted), whatever its importance.
C15_SentinelsSurfaced ==
    BatchBuilt
        => \A i \in 1..Len(dcur) :
               InBatch(dcur[i])
                   <=> /\ HasCachedSummary(dcur[i])
                       /\ \/ RatedAtLeastFive(StoredFor(dcur[i])[1])
                          \/ SentinelRecord(StoredFor(dcur[i])[1])

\* C16: every value generate_digest returns for a non-empty batch holds a
\* stories entry that is a list; a response whose stories entry is not a list
\* counts as a failed attempt.
C16_StoriesIsAList ==
    /\ (dpc = "returned" /\ entries_with_summaries # <<>>)
          => digest_ret[1].stories.t = "list"
    /\ \A i \in 1..Len(digest_resps) :
          (digest_resps[i] # <<>> /\ digest_resps[i][1].stories.t \notin {"list", "missing"}
              /\ digest_resps[i][1].news.t = "missing"
              /\ digest_resps[i][1].newsStories.t = "missing")
             => (digest_attempt >= i \/ dpc = "raised")

\* the response the returned digest was made from
Accepted == digest_resps[Len(digest_resps)][1]

\* C17: when the response uses the key news (or newsStories) instead of
\* stories, the returned object is the response with only that key renamed to
\* stories: every other key and value, a stories entry already present
\* included, is returned unmodified.
C17_OnlyTheKeyRenamed ==
    (dpc = "returned" /\ digest_resps # <<>>)
        => /\ Accepted.news.t # "missing"
                => /\ digest_ret[1].news.t = "missing"
                   /\ digest_ret[1].stories =
                          (IF Accepted.stories.t = "missing" THEN Accepted.news
                           ELSE Accepted.stories)
                   /\ digest_ret[1].newsStories = Accepted.newsStories
                   /\ digest_ret[1].other = Accepted.other
           /\ (Accepted.news.t = "missing" /\ Accepted.newsStories.t # "missing")
                => /\ digest_ret[1].newsStories.t = "missing"
                   /\ digest_ret[1].stories =
                          (IF Accepted.stories.t = "missing" THEN Accepted.newsStories
                           ELSE Accepted.stories)
                   /\ digest_ret[1].other = Accepted.other

\* the importance the threshold test is to use for the record
ExpectedImportance(rec) ==
    CASE rec.importance.t = "num" -> rec.importance.n
      [] rec.importance = Str(<<"7">>) -> 7
      [] rec.importance = Str(<<"2">>) -> 2
      [] OTHER -> 5

\* C18: for every cached summary generate_digest reads, the importance used
\* in the threshold test is a number: a numeric string is coerced to its
\* number, a missing, null or non-numeric importance counts as 5; the
\* normalization never raises.
C18_ImportanceIsNumeric ==
    dpc # "idle"
        => /\ digest_exc # "TypeError"
           /\ \A i \in 1..Len(dcur) :
                 HasCachedSummary(dcur[i])
                    => NormalizeImportance(StoredFor(dcur[i])[1])
                           = Num(ExpectedImportance(StoredFor(dcur[i])[1]))

\* --------------------------------------------------------------------- main
\* C12: no per-item failure (missing content, upstream error, unparseable or
\* sentinel response, key derivation failure) makes summarize_entry propagate
\* an exception or stops the loop over the items: the call returns a record
\* and the run ends only after every item has been gone through.
C12_ItemFailuresDoNotStopTheRun ==
    /\ term # "raised"
    /\ (run_pc = "summarize" /\ pc = "idle" /\ term # "none") => ret # <<>>
    /\ status # <<>> => feed_entries = <<>>

\* C19: when generate_digest exhausts its retries the run ends with a failure
\* status and the renderer is never invoked in it; the renderer is invoked
\* only after generate_digest has returned a value.
C19_DigestFailureAbortsBeforeRendering ==
    /\ dpc = "raised" => rendered = <<>>
    /\ (run_pc = "exit" /\ dpc = "raised") => status = <<3>>
    /\ rendered # <<>> => /\ dpc = "returned"
                          /\ digest_ret # <<>>
                          /\ rendered[1] = "create_daily_report"
    /\ status = <<0>> => rendered = <<"create_daily_report", "update_index">>

C19_Witness ==
    /\ run_pc = "exit" /\ status = <<3>>
    /\ dpc = "raised" /\ digest_exc = "RuntimeError"
    /\ Len(digest_resps) = 3
    /\ Len(all_processed_entries) = 2
    /\ rendered = <<>>

\* ------------------------------------------------- the cache, used directly
\* C20 (as stated): get_entry_summary after cache_summary(feed_id, entry_id,
\* record) returns a value equal to record.
C20_GetAfterPut ==
    last_op.name = "cache_summary"
        => get_entry_summary(last_op.f, last_op.k) = last_op.rec

\* C20 (amended): for every identity, when the latest cache_summary call for
\* it did not fail to write and the entry has not been cleared, deleted or
\* evicted since, get_entry_summary returns a value equal to the record of
\* that call: a later cache_summary for the identity replaces it, and writes
\* to other identities (summaries or contents) do not affect it.
C20_GetReturnsLatestPut ==
    \A f \in DOMAIN put : \A k \in DOMAIN put[f] :
        put[f][k] # <<>> => get_entry_summary(f, k) = put[f][k]

C20_Witness ==
    /\ last_op.name = "cache_content"
    /\ put["feedA"][create_entry_cache_key(E1)] = <<MixedRec>>
    /\ put["feedA"][create_entry_cache_key(E6)] = <<LowRec>>
    /\ put["feedB"][create_entry_cache_key(E1)] = <<LowRec>>
    /\ get_entry_summary("feedA", create_entry_cache_key(E1)) = <<MixedRec>>
    /\ get_entry_summary("feedB", create_entry_cache_key(E6)) = <<>>

\* ---------------------------------------------------------- clean_old_cache
\* this step is a call of clean_old_cache
SweepStep ==
    /\ tree_op'.name = "clean_old_cache"
    /\ tree_op.name = "clean_old_cache" => tree_op' # tree_op

\* what went wrong during that call
SweepFault == [kind |-> tree_op'.ok, f |-> tree_op'.f, k |-> tree_op'.k]

\* the step removed the entry directory x / left it as it was
Removed(x) == content'[x[1]][x[2]] = <<>> /\ summary'[x[1]][x[2]] = <<>>

Untouched(x) ==
    /\ content'[x[1]][x[2]] = content[x[1]][x[2]]
    /\ summary'[x[1]][x[2]] = summary[x[1]][x[2]]
    /\ mtime'[x[1]][x[2]] = mtime[x[1]][x[2]]

\* C21: clean_old_cache(days) removes every entry directory (content and
\* summary together) whose modification time is older than now minus days,
\* leaves every other entry directory untouched, and never removes a
\* rawfeed.json (the directories and feeds that someone else removed during
\* the walk, and the directory whose removal failed, are left out of the
\* comparison).
C21_SweepRemovesExactlyTheOld ==
    [][SweepStep =>
        /\ \A x \in AllEntries \ GoneEntries(SweepFault) :
              DirExists(x[1], x[2]) /\ x # <<SweepFault.f, SweepFault.k>> =>
                  IF IsOlder(x[1], x[2], tree_op'.arg) THEN Removed(x) ELSE Untouched(x)
        /\ \A f \in DOMAIN rawfeed \ GoneFeeds(SweepFault) : rawfeed'[f] = rawfeed[f]
      ]_vars

\* C25: when the removal of one entry directory fails, or an entry or feed
\* directory disappears during the walk, clean_old_cache does not raise and
\* every other entry directory older than the cutoff, in the same feed and in
\* the other feeds, is still removed.
C25_SweepSurvivesFaults ==
    [][SweepStep /\ SweepFault.kind # "none" =>
        /\ ~tree_op'.raised
        /\ \A x \in AllEntries \ GoneEntries(SweepFault) :
              /\ DirExists(x[1], x[2])
              /\ IsOlder(x[1], x[2], tree_op'.arg)
              /\ x # <<SweepFault.f, SweepFault.k>>
              => Removed(x)
      ]_vars

\* ---------------------------------------------------------- get_cached_feed
\* this step is a call of the operation name
TreeStep(name) == tree_op'.name = name /\ (tree_op.name = name => tree_op' # tree_op)

\* C22: get_cached_feed(feed_id, max_age_hours) returns None when no snapshot
\* is stored for the feed and when now minus the timestamp of the snapshot is
\* greater than max_age_hours; in every other case, an age equal to
\* max_age_hours included, it returns the snapshot that cache_feed stored.
C22_FreshSnapshotReturned ==
    [][TreeStep("get_cached_feed") =>
        LET f == tree_op'.f
            r == tree_op'.result
        IN  IF rawfeed[f] = <<>>
               \/ now - rawfeed[f][1].timestamp.n > tree_op'.arg * HourSecs
            THEN ~tree_op'.raised /\ r = <<>>
            ELSE /\ ~tree_op'.raised
                 /\ r = rawfeed[f]
                 /\ \E d \in FetchedFeeds : r[1] = CacheData(d, r[1].timestamp.n)
      ]_vars

\* ------------------------------------------------------ clear_entry_summary
\* the files of the tree other than the summary of <<f, k>> are as they were
OnlySummaryChanged(f, k) ==
    /\ content' = content
    /\ rawfeed' = rawfeed
    /\ \A x \in AllEntries : x # <<f, k>> => summary'[x[1]][x[2]] = summary[x[1]][x[2]]

\* C23: clear_entry_summary(feed_id, entry_id) returns True exactly when a
\* summary existed and was removed; afterwards has_entry_summary is False and
\* get_entry_summary is None for the identity, and the content of the item,
\* the snapshots and the files of every other item are unchanged.
C23_SummaryGoneAfterClear ==
    [][TreeStep("clear_entry_summary") =>
        LET f == tree_op'.f
            k == tree_op'.k
        IN  /\ tree_op'.result[1] <=> (summary[f][k] # <<>> /\ summary'[f][k] = <<>>)
            /\ summary'[f][k] = <<>>
            /\ OnlySummaryChanged(f, k)
      ]_vars

\* C23 (amended): clear_entry_summary returns True exactly when a summary
\* existed and was removed; when it returns True, and when there was no
\* summary, has_entry_summary is False and get_entry_summary is None
\* afterwards; when the removal fails it returns False and the summary stays
\* as it was.  In every case the content of the item, the snapshots and the
\* files of every other item are unchanged.
C23_SummaryGoneUnlessRemovalFails ==
    [][TreeStep("clear_entry_summary") =>
        LET f == tree_op'.f
            k == tree_op'.k
        IN  /\ tree_op'.result[1] <=> (summary[f][k] # <<>> /\ summary'[f][k] = <<>>)
            /\ (tree_op'.result[1] \/ summary[f][k] = <<>>) => summary'[f][k] = <<>>
            /\ (~tree_op'.result[1] /\ summary[f][k] # <<>>) =>
                    ~tree_op'.ok /\ summary'[f][k] = summary[f][k]
            /\ ~tree_op'.raised
            /\ OnlySummaryChanged(f, k)
      ]_vars

\* a summary was removed from under an item that keeps its content, while
\* another item keeps its summary and a feed its snapshot
C23_Witness ==
    /\ tree_op.name = "clear_entry_summary"
    /\ tree_op.result = <<TRUE>>
    /\ ~has_entry_summary(tree_op.f, tree_op.k)
    /\ content[tree_op.f][tree_op.k] # <<>>
    /\ \E x \in AllEntries : x # <<tree_op.f, tree_op.k>> /\ has_entry_summary(x[1], x[2])
    /\ rawfeed[tree_op.f] # <<>>

\* ----------------------------------------- clear_all_cache, clear_feed_cache
\* nothing is stored for the feed f
FeedEmpty(f) ==
    /\ rawfeed'[f] = <<>>
    /\ \A k \in DOMAIN summary[f] : content'[f][k] = <<>> /\ summary'[f][k] = <<>>

FeedUnchanged(f) ==
    /\ rawfeed'[f] = rawfeed[f]
    /\ content'[f] = content[f]
    /\ summary'[f] = summary[f]
    /\ mtime'[f] = mtime[f]

\* C24: after a clear_all_cache that returned, the snapshot, the content and
\* the summary are absent for every feed and every entry; after a
\* clear_feed_cache(feed_id) that returned they are absent for that feed, and
\* the subtree of every other feed is unchanged.
C24_ClearedSubtreesAreEmpty ==
    [][/\ TreeStep("clear_all_cache") /\ ~tree_op'.raised =>
            \A f \in TreeFeeds : FeedEmpty(f)
       /\ TreeStep("clear_feed_cache") /\ ~tree_op'.raised =>
            /\ FeedEmpty(tree_op'.f)
            /\ \A f \in TreeFeeds \ {tree_op'.f} : FeedUnchanged(f)
      ]_vars

\* one feed was cleared while the other keeps a snapshot and a summary
C24_Witness ==
    /\ tree_op.name = "clear_feed_cache"
    /\ ~tree_op.raised
    /\ tree_op.f = "feedA"
    /\ rawfeed["feedA"] = <<>>
    /\ rawfeed["feedB"] # <<>>
    /\ \E k \in TreeIds : summary["feedB"][k] # <<>> /\ content["feedB"][k] # <<>>

\* ------------------------------------------------------------ failed writes
\* C26: an I/O failure while writing an artifact is never raised to the
\* caller, and the operation that asked for the write still returns its
\* in-memory result: get_feed_entries returns the entries it fetched.
C26_FailedWriteKeepsResult ==
    /\ (tree_op.name \in {"cache_feed", "cache_content", "cache_summary"} /\ ~tree_op.ok)
            => ~tree_op.raised
    /\ (tree_op.name = "get_feed_entries" /\ tree_op.arg # <<>> /\ ~tree_op.ok)
            => tree_op.result = <<GetOr(tree_op.arg[1].entries, Lst(<<>>)).s>>

\* -------------------------------------------------- identities never written
\* C27: for identities that were never written, get_cached_feed,
\* get_cached_content and get_entry_summary return None, has_entry_summary
\* and clear_entry_summary return False, and none of them raises.
C27_MissesAreAbsent ==
    [][/\ TreeStep("get_cached_feed") /\ ~FeedDirExists(tree_op'.f) =>
            ~tree_op'.raised /\ tree_op'.result = <<>>
       /\ \A name \in {"get_cached_content", "get_entry_summary"} :
            TreeStep(name) /\ ~DirExists(tree_op'.f, tree_op'.k) =>
                ~tree_op'.raised /\ tree_op'.result = <<>>
       /\ \A name \in {"has_entry_summary", "clear_entry_summary"} :
            TreeStep(name) /\ ~DirExists(tree_op'.f, tree_op'.k) =>
                ~tree_op'.raised /\ tree_op'.result = <<FALSE>>
      ]_vars

\* ------------------------------------------------------------------------
\* the latest two derivations are calls of the same function
BothCalls(name) == id_prev.name = name /\ id_op.name = name

\* C28: generate_feed_id gives identical identities for identical (address,
\* label) inputs and, for every label, different identities for two different
\* addresses; under a label the identity is the sanitized label, "_" and the
\* first 8 hex characters of the hash of the address, without a label it is
\* the 40 characters of the hash.
C28_FeedIdsAreDistinct ==
    BothCalls("generate_feed_id") =>
        LET url_a == id_prev.args[1]   title_a == id_prev.args[2]
            url_b == id_op.args[1]     title_b == id_op.args[2]
            id_a  == id_prev.result[1]
            id_b  == id_op.result[1]
        IN  /\ id_prev.args = id_op.args => id_a = id_b
            /\ url_a # url_b /\ title_a = title_b => id_a # id_b
            /\ IF title_b.t = "str" /\ title_b.s # <<>>
               THEN /\ SubSeq(id_b, 1, Len(id_b) - 9) = safe_filename(title_b.s)
                    /\ id_b[Len(id_b) - 8] = "_"
                    /\ SubSeq(id_b, Len(id_b) - 7, Len(id_b))
                         = SubSeq(Sha1Hex(url_b), 1, 8)
               ELSE id_b = Sha1Hex(url_b) /\ Len(id_b) = 40

\* the title, the link and the id of an item
ThreeFields(entry) == <<entry.title, entry.link, entry.id>>

\* C29: two items that agree on title, link and id get the same non-empty
\* key from create_entry_cache_key, whatever their other fields are and
\* wherever the key is derived (content cache, summary cache, digest).
C29_KeyDependsOnThreeFields ==
    BothCalls("create_entry_cache_key")
    /\ ThreeFields(id_prev.args[2]) = ThreeFields(id_op.args[2])
    => /\ id_op.result # <<>>
       /\ id_prev.result = id_op.result

\* C30: two items of one source with different locators (the link, or the id
\* when there is no link) get different keys, titled or not.
C30_DifferentLocatorsDifferentKeys ==
    BothCalls("create_entry_cache_key")
    /\ id_prev.result # <<>> /\ id_op.result # <<>>
    /\ UniquePart(id_prev.args[2]) # UniquePart(id_op.args[2])
    => id_prev.result # id_op.result

\* ------------------------------------------------------------------------
\* C31: create_entry_cache_key never raises: for every item, one without
\* title, link and id included, and one whose link or id is null or not a
\* string, it returns a key.
C31_KeyNeverRaises ==
    id_op.name = "create_entry_cache_key" => ~id_op.raised /\ id_op.result # <<>>

\* ------------------------------------------------------------------------
\* the characters of [A-Za-z0-9_.-] in the alphabet used here
PortableChars == {"A", "B", "e", "n", "t", "r", "y", "u", "x", "v", "w", "i", "l",
                  "d", "m", "s", "g", "_", "-", "."}

\* C32: for every input string the result of safe_filename is non-empty, at
\* most 100 characters long, made of characters of [A-Za-z0-9_.-] only, has
\* no run of two or more underscores, and neither starts nor ends with an
\* underscore.
C32_NameIsPortable ==
    id_op.name = "safe_filename" =>
        LET name == id_op.result[1]
        IN  /\ name # <<>>
            /\ Len(name) <= 100
            /\ \A i \in 1..Len(name) : name[i] \in PortableChars
            /\ \A i \in 1..(Len(name) - 1) : ~(name[i] = "_" /\ name[i + 1] = "_")
            /\ name[1] # "_"
            /\ name[Len(name)] # "_"

\* ------------------------------------------------------------------------
\* the time.sleep calls made are n - 1 calls of one fixed delay
DelaysFor(n) ==
    /\ Len(digest_sleeps) = n - 1
    /\ \A i \in 1..Len(digest_sleeps) : digest_sleeps[i] = digest_sleeps[1]

\* C34: a summarize_entry call that made n upstream attempts has slept n - 1
\* times, the same delay each time: a delay between every two consecutive
\* attempts, none after the last attempt or after a successful one.
C34_DelayBetweenAttempts == Ended /\ upstream >= 1 => DelaysFor(upstream)

\* ------------------------------------------------------------------------
\* both processes have returned
BothDone == \A p \in Procs : writer[p].pc = "done"

\* what a reader gets for a record that was written whole
ReadBack(rec) == JsonLoad(JsonDump(rec))

\* C35: when two processes summarize the same item concurrently, the cached
\* summary after both have returned is a complete record, the one returned
\* by one of the two; a reader in between gets None or a complete record and
\* no exception.
C35_RaceLeavesACompleteRecord ==
    /\ BothDone =>
          /\ FileGet # <<>>
          /\ \E p \in Procs : FileGet[1] = ReadBack(writer[p].ret[1])
    /\ ~reads.raised
    /\ reads.result # <<>> => \E r \in RaceRecords : reads.result[1] = ReadBack(r)

\* ------------------------------------------------------------------------
\* neither of the first two attempts returned a record the call could use
NoEarlierSuccess == \A j \in 1..2 : ~Usable(resps[j])

\* C36: over the three attempts of one call, with no earlier success, the
\* third attempt alone decides the terminal record: a sentinel record on the
\* third attempt is cached and returned as it is, also after two attempts
\* that failed outright, and a third attempt that fails outright yields the
\* synthesized fallback, also after two sentinel records.
C36_ThirdAttemptDecides ==
    (Ended /\ Len(resps) = 3 /\ NoEarlierSuccess) =>
        /\ (resps[3] # <<>> /\ SentinelRecord(resps[3][1])) =>
              /\ ret = resps[3]
              /\ WroteOnce(resps[3][1])
        /\ resps[3] = <<>> =>
              /\ FallbackShape(ret[1], cur.entry)
              /\ WroteOnce(ret[1])

\* two attempts failed outright and the third returned a sentinel record,
\* which is what the call cached and returned
C36_Witness ==
    /\ Ended /\ Len(resps) = 3
    /\ resps[1] = <<>> /\ resps[2] = <<>>
    /\ resps[3] # <<>> /\ SentinelRecord(resps[3][1])
    /\ ret = resps[3] /\ Stored = ret

\* ------------------------------------------------------------------------
\* no cache_summary of the call hit an I/O error
NoStorageFailure == \A i \in 1..Len(writes) : writes[i].ok

\* C37: when summarize_entry has returned for an item whose key can be
\* derived, with no storage failure, get_entry_summary for that identity
\* returns a record equal to the returned one, on every path: cache hit,
\* success, persisted sentinel and fallback.
C37_ReturnedIsWhatIsCached ==
    (Ended /\ ~KeyRaises(cur.entry) /\ NoStorageFailure)
        => get_entry_summary(cur.feed, CurKey) = ret

\* the call succeeded at its second attempt, with a record that differs from
\* the upstream's by the echoed title and url, and the cache holds what the
\* call returned
C37_Witness ==
    /\ Ended /\ term = "success" /\ upstream = 2 /\ NoStorageFailure
    /\ ret # resps[2]
    /\ get_entry_summary(cur.feed, CurKey) = ret

\* ------------------------------------------------------------------------
\* C38: for every identity, has_entry_summary is true exactly when
\* get_entry_summary returns a record that summarize_entry treats as a cache
\* hit, so that the run loop and summarize_entry agree on whether an item is
\* already done, an empty record included.
C38_HasAgreesWithCacheHit ==
    \A f \in FeedIds, k \in EntryIds :
        has_entry_summary(f, k) <=> CacheHit(get_entry_summary(f, k))

\* ------------------------------------------------------------------------
\* this step is a cache_content or a cache_summary that wrote its file
WriteStep ==
    /\ TreeStep("cache_content") \/ TreeStep("cache_summary")
    /\ tree_op'.ok

\* the operation before this step wrote a file of the entry x, at this instant
JustWritten(x) ==
    /\ tree_op.name \in {"cache_content", "cache_summary"}
    /\ tree_op.ok
    /\ x = <<tree_op.f, tree_op.k>>

\* C39: every cache_content and cache_summary on an item, an overwrite of an
\* existing file included, refreshes the age that the sweep uses for the
\* item's directory, and an item written less than the retention period ago
\* is not removed by clean_old_cache.
C39_WriteRefreshesAge ==
    [][/\ WriteStep => mtime'[tree_op'.f][tree_op'.k] = now'
       /\ SweepStep /\ tree_op'.arg >= 1 =>
             \A x \in AllEntries \ GoneEntries(SweepFault) :
                 JustWritten(x) => Untouched(x)
      ]_vars

\* ------------------------------------------------------------------------
\* this step is one of the read operations of the cache
ReadStep ==
    \E name \in {"get_cached_feed", "get_cached_content", "get_entry_summary",
                 "has_entry_summary"} : TreeStep(name)

\* C40: get_cached_feed, get_cached_content, get_entry_summary and
\* has_entry_summary leave the cache store as it is: no file or directory is
\* created, modified or removed, also when the feed or the item they ask for
\* does not exist.
C40_ReadsLeaveTheStoreAlone ==
    [][ReadStep => UNCHANGED <<content, summary, rawfeed, feed_dirs, mtime>>]_vars

====
